---------------------------- MODULE Spec2Model ----------------------------
(***************************************************************************)
(* Near-field to far-field projection (tidy3d FieldProjector).             *)
(*                                                                         *)
(* Numbers.  numpy's complex floats are modelled by exact complex          *)
(* rationals <<a, b, d>> = (a + b*j)/d in lowest terms with d > 0.         *)
(* Lengths are whole multiples of one length unit; frequencies are whole   *)
(* multiples of one frequency unit.  The units are chosen so that a        *)
(* frequency of 1 in a medium of index 1 has a wavelength of C_0 = 4       *)
(* length units, i.e. a phase advance of a quarter turn per length unit.   *)
(* np.exp is then exact on every argument the model feeds it.  np.pi only  *)
(* enters as a scale factor and as the quarter turn PI/2.                  *)
(***************************************************************************)
EXTENDS Integers, Sequences, FiniteSets, TLC

(***************************************************************************)
(* Complex rational arithmetic                                             *)
(***************************************************************************)
Abs(n) == IF n < 0 THEN -n ELSE n

RECURSIVE GCD(_, _)
GCD(m, n) == IF n = 0 THEN m ELSE GCD(n, m % n)

LCM(m, n) == (m \div GCD(m, n)) * n

\* lowest terms, positive denominator
Norm(a, b, d) ==
  LET s == IF d < 0 THEN -1 ELSE 1
      g == GCD(GCD(Abs(a), Abs(b)), Abs(d))
  IN  <<(s * a) \div g, (s * b) \div g, (s * d) \div g>>

CInt(n) == <<n, 0, 1>>
CRat(n, d) == Norm(n, 0, d)
CZero == <<0, 0, 1>>
COne == <<1, 0, 1>>
CJ == <<0, 1, 1>>

CAdd(x, y) ==
  LET l == LCM(x[3], y[3])
      p == l \div x[3]
      q == l \div y[3]
  IN  Norm(x[1] * p + y[1] * q, x[2] * p + y[2] * q, l)

CNeg(x) == <<-x[1], -x[2], x[3]>>
CSub(x, y) == CAdd(x, CNeg(y))

CMul(x, y) ==
  LET g1 == GCD(GCD(Abs(x[1]), Abs(x[2])), y[3])
      g2 == GCD(GCD(Abs(y[1]), Abs(y[2])), x[3])
      a1 == x[1] \div g1
      b1 == x[2] \div g1
      a2 == y[1] \div g2
      b2 == y[2] \div g2
  IN  Norm(a1 * a2 - b1 * b2, a1 * b2 + b1 * a2, (x[3] \div g2) * (y[3] \div g1))

\* 1/x for x # 0
CInv(x) ==
  LET g == GCD(Abs(x[1]), Abs(x[2]))
      a == x[1] \div g
      b == x[2] \div g
      m == a * a + b * b
      h == GCD(x[3], g * m)
  IN  Norm(a * (x[3] \div h), -(b * (x[3] \div h)), (g * m) \div h)
CDiv(x, y) == CMul(x, CInv(y))
CScale(n, x) == CMul(CInt(n), x)

IsReal(x) == x[2] = 0
\* order of two real numbers
RLe(x, y) == x[1] * y[3] <= y[1] * x[3]
RLt(x, y) == x[1] * y[3] < y[1] * x[3]
RMax(x, y) == IF RLe(x, y) THEN y ELSE x
RMin(x, y) == IF RLe(x, y) THEN x ELSE y
\* np.ceil of a real number, as an integer
Ceil(x) == -((-x[1]) \div x[3])

RECURSIVE CSum(_, _)
\* sum of f[i] for i in 1..n
CSum(f, n) == IF n = 0 THEN CZero ELSE CAdd(CSum(f, n - 1), f[n])


(***************************************************************************)
(* Small helpers on sequences and n-dimensional arrays.  An array is a     *)
(* record [shape, val]: val maps every index tuple (1-based) to a number.  *)
(***************************************************************************)
\* Python's Optional: None is the empty set, a value v is {v}
None == {}
Some(v) == {v}
The(o) == CHOOSE v \in o : TRUE

RemoveAt(s, i) == [k \in 1..(Len(s) - 1) |-> IF k < i THEN s[k] ELSE s[k + 1]]
InsertAt(s, i, v) ==
  [k \in 1..(Len(s) + 1) |-> IF k < i THEN s[k] ELSE IF k = i THEN v ELSE s[k - 1]]

RECURSIVE SeqMax(_)
SeqMax(s) == IF Len(s) = 0 THEN 0
             ELSE LET m == SeqMax(Tail(s)) IN IF Head(s) > m THEN Head(s) ELSE m

\* the index tuples of an array of up to five dimensions
Indices(shape) ==
  CASE Len(shape) = 0 -> {<<>>}
    [] Len(shape) = 1 -> {<<i>> : i \in 1..shape[1]}
    [] Len(shape) = 2 -> (1..shape[1]) \X (1..shape[2])
    [] Len(shape) = 3 -> (1..shape[1]) \X (1..shape[2]) \X (1..shape[3])
    [] Len(shape) = 4 -> (1..shape[1]) \X (1..shape[2]) \X (1..shape[3]) \X (1..shape[4])
    [] Len(shape) = 5 -> (1..shape[1]) \X (1..shape[2]) \X (1..shape[3]) \X (1..shape[4])
                           \X (1..shape[5])

\* f itself, held as a table of its values: TLC otherwise recomputes a
\* function's value at every use
Eager(f) == IF f = <<>> THEN <<>> ELSE f

\* TRUE, once x has been computed: TLC computes an argument where it is
\* first used, however deeply nested that place is
Computed(x) == x = x


\* a sorted set of real numbers as an ascending sequence (np.unique)
RECURSIVE SortedSeq(_)
SortedSeq(S) ==
  IF S = {} THEN <<>>
  ELSE LET m == CHOOSE x \in S : \A y \in S : RLe(x, y)
       IN  <<m>> \o SortedSeq(S \ {m})

\* np.linspace(start, stop, num) for num >= 0
Linspace(start, stop, num) ==
  IF num = 1 THEN <<start>>
  ELSE Eager([i \in 1..num |-> CAdd(start, CMul(CRat(i - 1, num - 1), CSub(stop, start)))])

\* np.sqrt of a whole number, rounded down to a whole number: exact on the
\* perfect squares
Sqrt(n) == CHOOSE r \in 0..n : r * r <= n /\ (r + 1) * (r + 1) > n

\* np.sqrt of a real number a/d >= 0, as Sqrt(a * d) / d
RSqrt(x) == CRat(Sqrt(x[1] * x[3]), x[3])

(***************************************************************************)
(* Geometry of the collaborators: axes are 0, 1, 2 as in the code, the     *)
(* k-th entry of a Python 3-tuple t is t[k + 1].                           *)
(***************************************************************************)
Axes == {0, 1, 2}
AxisName(a) == CASE a = 0 -> "x" [] a = 1 -> "y" [] a = 2 -> "z"
EName(c) == CASE c = "x" -> "Ex" [] c = "y" -> "Ey" [] c = "z" -> "Ez"
HName(c) == CASE c = "x" -> "Hx" [] c = "y" -> "Hy" [] c = "z" -> "Hz"

\* Geometry.pop_axis(coord, axis): (coord[axis], the two others in order)
PopAxis(coord, axis) == <<coord[axis + 1], RemoveAt(coord, axis + 1)>>

\* FieldProjectionSurface.axis: the dimension along which the monitor is flat
SurfaceAxis(surface) == CHOOSE a \in Axes : surface.monitor.size[a + 1] = 0

(***************************************************************************)
(* Program constants, in the units of the header.                          *)
(***************************************************************************)
C_0 == 4
ETA_0 == 2
MU_0 == <<1, 0, 2>>
EPSILON_0 == <<1, 0, 8>>
PI == 3
PTS_PER_WVL == 10

\* medium.eps_model(frequency): a lossless, dispersionless medium of index n
EpsModel(medium, frequency) == CInt(medium.n * medium.n)
\* medium.eps_complex_to_nk(eps): (n, k) of a real permittivity
EpsComplexToNK(eps) == <<CInt(Sqrt(eps[1])), CZero>>

(***************************************************************************)
(* FieldProjector._fields_to_currents                                      *)
(***************************************************************************)
ScaleArray(arr, sign) ==
  [arr EXCEPT !.val = Eager([t \in DOMAIN arr.val |-> CScale(sign, arr.val[t])])]

\* a sign pair that forgets the parity of the axis
SignsNoParity(surface) == IF surface.normal_dir = "-" THEN <<1, -1>> ELSE <<-1, 1>>

\* lines 252-256: the sign pair
Signs(surface) ==
  LET s0 == <<-1, 1>>
      s1 == IF SurfaceAxis(surface) % 2 # 0 THEN <<-s0[1], -s0[2]>> ELSE s0
  IN  IF surface.normal_dir = "-" THEN <<-s1[1], -s1[2]>> ELSE s1

FieldsToCurrents(field_data, surface) ==
  LET cmp == PopAxis(<<"x", "y", "z">>, SurfaceAxis(surface))[2]
      signs == Signs(surface)
      E1 == EName(cmp[1])
      E2 == EName(cmp[2])
      H1 == HName(cmp[1])
      H2 == HName(cmp[2])
      fc == field_data.field_components
  IN  [monitor |-> [surface.monitor EXCEPT !.fields = <<E1, E2, H1, H2>>],
       field_components |->
         Eager([c \in {E1, E2, H1, H2} |->
                  CASE c = E2 -> ScaleArray(fc[H1], signs[2])
                    [] c = E1 -> ScaleArray(fc[H2], signs[1])
                    [] c = H2 -> ScaleArray(fc[E1], signs[1])
                    [] c = H1 -> ScaleArray(fc[E2], signs[2])])]

(***************************************************************************)
(* FieldProjector.trapezoid.  A failed call is an array record whose err   *)
(* names the exception; a good one has err = "none".                       *)
(***************************************************************************)
Good(shape, val) == [err |-> "none", shape |-> shape, val |-> Eager(val)]
Failed(e) == [err |-> e, shape |-> <<>>, val |-> <<>>]

\* Python's ary.shape[a] and axis=a: a negative index counts from the end
PyAxis(ndim, a) == IF a < 0 THEN ndim + a ELSE a

\* autograd.functions.trapz(y, x, axis): sum of (y[i] + y[i+1]) * diff(x)[i] / 2
\* along axis (0-based, in range), diff(x) broadcast against the pairs of y
Trapz(ary, pt, axis) ==
  LET n == ary.shape[axis + 1]
      a == n - 1
      b == Len(pt) - 1
      m == IF a = 1 THEN b ELSE a
      d(i) == LET k == IF b = 1 THEN 1 ELSE i IN CSub(pt[k + 1], pt[k])
      pair(t, i) == LET k == IF a = 1 THEN 1 ELSE i
                    IN  CAdd(ary.val[InsertAt(t, axis + 1, k)],
                             ary.val[InsertAt(t, axis + 1, k + 1)])
      shape == RemoveAt(ary.shape, axis + 1)
  IN  IF b < 0 \/ ~(a = b \/ a = 1 \/ b = 1)
      THEN Failed("ValueError")
      ELSE Good(shape,
                [t \in Indices(shape) |->
                   CSum([i \in 1..m |-> CMul(CMul(pair(t, i), d(i)), CRat(1, 2))], m)])

\* ary[(slice(None),) * k + (0,)]: the first entry along axis max(k, 0)
TakeFirst(ary, k) ==
  LET axis == IF k < 0 THEN 0 ELSE k
      shape == RemoveAt(ary.shape, axis + 1)
  IN  IF axis >= Len(ary.shape) \/ ary.shape[axis + 1] = 0
      THEN Failed("IndexError")
      ELSE Good(shape, [t \in Indices(shape) |-> ary.val[InsertAt(t, axis + 1, 1)]])

\* one turn of the loop at lines 379-383
TrapezoidStep(ary, pt, k) ==
  LET ndim == Len(ary.shape)
      ax == PyAxis(ndim, k)
  IN  IF ary.err # "none" THEN ary
      ELSE IF ax < 0 \/ ax >= ndim THEN Failed("IndexError")
      ELSE IF ary.shape[ax + 1] > 1 THEN Trapz(ary, pt, ax)
      ELSE TakeFirst(ary, k)

RECURSIVE TrapezoidLoop(_, _, _, _)
TrapezoidLoop(ary, pts, axes, idx) ==
  IF idx >= Len(axes) \/ idx >= Len(pts) THEN ary
  ELSE TrapezoidLoop(TrapezoidStep(ary, pts[idx + 1], axes[idx + 1] - idx),
                     pts, axes, idx + 1)

\* lines 379-384: axes is a tuple of axes and pts the tuple of their points
Trapezoid(ary, pts, axes) == TrapezoidLoop(Good(ary.shape, ary.val), pts, axes, 0)

\* lines 375-377: one axis that is not an iterable is wrapped, with its points
TrapezoidAxis(ary, pt, axis) == Trapezoid(ary, <<pt>>, <<axis>>)

(***************************************************************************)
(* FieldProjector._resample_surface_currents: the colocation points        *)
(***************************************************************************)
\* lines 326-333: the sampling bounds along axis idx
\* the lower edge of the simulation alone
SampleStartOfSimulation(sim, monitor, idx) ==
  CSub(CInt(sim.center[idx + 1]), CRat(sim.size[idx + 1], 2))

SampleStart(sim, monitor, idx) ==
  RMax(CSub(CInt(monitor.center[idx + 1]), CRat(monitor.size[idx + 1], 2)),
       CSub(CInt(sim.center[idx + 1]), CRat(sim.size[idx + 1], 2)))
SampleStop(sim, monitor, idx) ==
  RMin(CAdd(CInt(monitor.center[idx + 1]), CRat(monitor.size[idx + 1], 2)),
       CAdd(CInt(sim.center[idx + 1]), CRat(sim.size[idx + 1], 2)))

\* lines 317-320: the wavelength at the monitor's highest frequency
ResampleWavelength(monitor, medium) ==
  LET frequency == SeqMax(monitor.freqs)
      index_n == EpsComplexToNK(EpsModel(medium, frequency))[1]
  IN  CDiv(CDiv(CInt(C_0), CInt(frequency)), index_n)

\* a count rounded down in place of up
NumPtsFloor(pts_per_wavelength, size, wavelength) ==
  LET q == CDiv(CMul(CInt(pts_per_wavelength), size), wavelength) IN q[1] \div q[3]

\* line 342
NumPts(pts_per_wavelength, size, wavelength) ==
  Ceil(CDiv(CMul(CInt(pts_per_wavelength), size), wavelength))

\* the two ends of the sampling bounds alone
AxisPointsEnds(sim, monitor, medium, pts_per_wavelength, idx) ==
  <<SampleStart(sim, monitor, idx), SampleStop(sim, monitor, idx)>>

\* lines 335-344: the points along one in-plane axis
AxisPoints(sim, monitor, medium, pts_per_wavelength, idx) ==
  LET start == SampleStart(sim, monitor, idx)
      stop == SampleStop(sim, monitor, idx)
      bnd == sim.boundaries[idx + 1]
      clip(v) == IF RLt(v, start) THEN start ELSE IF RLt(stop, v) THEN stop ELSE v
  IN  IF pts_per_wavelength = None
      THEN SortedSeq({clip(CInt(bnd[i])) : i \in 1..Len(bnd)})
      ELSE Linspace(start, stop,
                    NumPts(The(pts_per_wavelength), CSub(stop, start),
                           ResampleWavelength(monitor, medium)))

\* lines 313-348: per axis None or the sequence of points handed to colocate
ColocationPoints(sim, surface, medium, pts_per_wavelength) ==
  LET axis == SurfaceAxis(surface)
      raw(idx) == IF idx = axis THEN <<CInt(surface.monitor.center[axis + 1])>>
                  ELSE AxisPoints(sim, surface.monitor, medium, pts_per_wavelength, idx)
  IN  Eager([k \in 1..3 |-> IF Len(raw(k - 1)) <= 1 THEN None ELSE Some(raw(k - 1))])

(***************************************************************************)
(* The near-field data of sim_data, and FieldData.colocate                 *)
(***************************************************************************)
FieldNames == {"Ex", "Ey", "Ez", "Hx", "Hy", "Hz"}
CompIx(c) == CASE c = "Ex" -> 1 [] c = "Ey" -> 2 [] c = "Ez" -> 3
               [] c = "Hx" -> 4 [] c = "Hy" -> 5 [] c = "Hz" -> 6

\* the grid lines on which the solver recorded the monitor's fields: those
\* of the cells that the monitor touches
NativeCoords(sim, monitor, idx) ==
  LET start == SampleStart(sim, monitor, idx)
      stop == SampleStop(sim, monitor, idx)
      bnd == sim.boundaries[idx + 1]
      below == {k \in 1..Len(bnd) : RLe(CInt(bnd[k]), start)}
      above == {k \in 1..Len(bnd) : RLe(stop, CInt(bnd[k]))}
      first == IF below = {} THEN 1 ELSE CHOOSE k \in below : \A m \in below : m <= k
      last == IF above = {} THEN Len(bnd) ELSE CHOOSE k \in above : \A m \in above : k <= m
  IN  IF start = stop THEN <<start>>
      ELSE Eager([i \in 1..(last - first + 1) |-> CInt(bnd[first + i - 1])])

\* the recorded value of one field component at one grid point and frequency
FieldValue(monitor, c, f, x, y, z) ==
  <<CompIx(c) + monitor.seed + x[1] + 2 * y[1] - z[1],
    f * (CompIx(c) - 3) + x[1] - y[1] + z[1], 1>>

\* a labelled array: coords = <<x, y, z, f>>, val on the index tuples
DataArrayShape(arr) == [k \in 1..4 |-> Len(arr.coords[k])]

\* the data recorded on the grid lines coords = <<x, y, z, f>>
MonitorDataOn(monitor, coords, shape) ==
  [monitor |-> monitor,
   field_components |->
     Eager([c \in FieldNames |->
              [coords |-> coords,
               val |-> Eager([t \in Indices(shape) |->
                                FieldValue(monitor, c, monitor.freqs[t[4]], coords[1][t[1]],
                                           coords[2][t[2]], coords[3][t[3]])])]])]
MonitorDataShape(monitor, coords) ==
  MonitorDataOn(monitor, coords, <<Len(coords[1]), Len(coords[2]), Len(coords[3]), Len(coords[4])>>)

\* sim_data[monitor.name]
MonitorData(sim, monitor) ==
  MonitorDataShape(monitor,
                   <<NativeCoords(sim, monitor, 0), NativeCoords(sim, monitor, 1),
                     NativeCoords(sim, monitor, 2),
                     Eager([i \in 1..Len(monitor.freqs) |-> CInt(monitor.freqs[i])])>>)

\* DataArray.interp along dimension k (1..3) onto the points pts, which lie
\* within the array's coordinates (bounds_error=True)
Interp1(arr, k, pts) ==
  LET old == arr.coords[k]
      coords == [arr.coords EXCEPT ![k] = pts]
      shape == [i \in 1..4 |-> Len(coords[i])]
      lo(p) == CHOOSE i \in 1..(Len(old) - 1) : RLe(old[i], p) /\ RLe(p, old[i + 1])
      at(t) == LET p == pts[t[k]]
                   i == lo(p)
                   w == CDiv(CSub(p, old[i]), CSub(old[i + 1], old[i]))
               IN  CAdd(CMul(CSub(COne, w), arr.val[[t EXCEPT ![k] = i]]),
                        CMul(w, arr.val[[t EXCEPT ![k] = i + 1]]))
  IN  [coords |-> coords, val |-> Eager([t \in Indices(shape) |-> at(t)])]

RECURSIVE InterpAll(_, _, _)
InterpAll(arr, points, k) ==
  IF k > 3 THEN arr
  ELSE InterpAll(IF points[k] = None THEN arr ELSE Interp1(arr, k, The(points[k])),
                 points, k + 1)

\* a dimension asked for cannot be colocated when the data has one point on
\* it (DataError) or does not cover a point asked for (ValueError)
ColocateError(arr, points) ==
  IF \E k \in 1..3 : points[k] # None /\ Len(arr.coords[k]) = 1 THEN "DataError"
  ELSE IF \E k \in 1..3 : points[k] # None /\
            \E i \in 1..Len(The(points[k])) :
               \/ RLt(The(points[k])[i], arr.coords[k][1])
               \/ RLt(arr.coords[k][Len(arr.coords[k])], The(points[k])[i])
  THEN "ValueError"
  ELSE "none"

\* the xr.Dataset of the colocated components done[c]
Dataset(done) ==
  LET one == done[CHOOSE c \in DOMAIN done : TRUE]
  IN  [err |-> "none", x |-> one.coords[1], y |-> one.coords[2],
       z |-> one.coords[3], f |-> one.coords[4],
       data |-> Eager([c \in DOMAIN done |-> done[c].val])]

\* FieldData.colocate(x, y, z): an xr.Dataset of the components on common points
Colocate(field_data, points) ==
  LET fc == field_data.field_components
      e == ColocateError(fc[CHOOSE c \in DOMAIN fc : TRUE], points)
  IN  IF e # "none"
      THEN [err |-> e, x |-> <<>>, y |-> <<>>, z |-> <<>>, f |-> <<>>, data |-> <<>>]
      ELSE Dataset(Eager([c \in DOMAIN fc |-> InterpAll(fc[c], points, 1)]))

\* lines 281-351
ResampleSurfaceCurrents(currents, sim, surface, medium, pts_per_wavelength) ==
  Colocate(currents, ColocationPoints(sim, surface, medium, pts_per_wavelength))

\* lines 219-230, for a monitor whose data sim_data holds
ComputeSurfaceCurrents(sim, surface, medium, pts_per_wavelength) ==
  ResampleSurfaceCurrents(FieldsToCurrents(MonitorData(sim, surface.monitor), surface),
                          sim, surface, medium, pts_per_wavelength)

(***************************************************************************)
(* Transcendental functions, exact on the arguments of the model: np.exp   *)
(* of a whole number q of quarter turns, exp(j*q*PI/2) = j^q; an angle is  *)
(* the pair <<sin, cos>>.                                                  *)
(***************************************************************************)
QuarterTurns(z) == CDiv(<<z[2], 0, z[3]>>, CRat(PI, 2))
OnLattice(z) == z[1] = 0 /\ QuarterTurns(z)[3] = 1
Cexp(z) ==
  LET q == QuarterTurns(z)[1]
  IN  CASE OnLattice(z) /\ q % 4 = 0 -> COne
        [] OnLattice(z) /\ q % 4 = 1 -> CJ
        [] OnLattice(z) /\ q % 4 = 2 -> CInt(-1)
        [] OnLattice(z) /\ q % 4 = 3 -> CNeg(CJ)
SinOf(angle) == angle[1]
CosOf(angle) == angle[2]

\* AbstractFieldProjectionData.wavenumber(medium, frequency) = 2*pi*f*n / C_0
Wavenumber(medium, frequency) ==
  CMul(CRat(2 * PI * frequency, C_0), EpsComplexToNK(EpsModel(medium, frequency))[1])

(***************************************************************************)
(* FieldProjector.is_2d_simulation                                         *)
(***************************************************************************)
Is2dSimulation(sim) == Cardinality({k \in 1..3 : sim.size[k] # 0}) = 2

(***************************************************************************)
(* FieldProjector._far_fields_for_surface.  The result is [err, monitor,   *)
(* val]: val[<<c, t, p>>] is component c (1..6: Er, Etheta, Ephi, Hr,      *)
(* Htheta, Hphi) at theta[t], phi[p].                                      *)
(***************************************************************************)
Raise(e, name) == [err |-> e, monitor |-> name, val |-> <<>>]

\* lines 420-425: the position of frequency on the f axis, 0 when absent
SelF(currents, frequency) ==
  IF \E i \in 1..Len(currents.f) : currents.f[i] = CInt(frequency)
  THEN CHOOSE i \in 1..Len(currents.f) : currents.f[i] = CInt(frequency)
  ELSE 0

\* lines 431-439: the axis of the 1D integral; set.pop() of CPython gives the
\* smallest of a set of small integers
IntegrationAxis1d(sim, surface) ==
  LET zero_dim == CHOOSE d \in Axes : sim.size[d + 1] = 0
      integration_axis == Axes \ {zero_dim, SurfaceAxis(surface)}
  IN  CHOOSE a \in integration_axis : \A b \in integration_axis : a <= b

\* slot i taken as entry order[i] of (first, second, zeros)
PlaceFarByOrder(jm, order, off, i) ==
  IF order[i + 1] = 0 THEN jm[1 + off] ELSE IF order[i + 1] = 1 THEN jm[2 + off] ELSE CZero

\* lines 483-489: J (off = 0) and M (off = 2) from jm
PlaceFar(jm, order, off, i) ==
  IF i = order[1] THEN jm[1 + off] ELSE IF i = order[2] THEN jm[2 + off] ELSE CZero

\* Ephi with the sign of eta * Nphi changed
FarEPlus(Ntheta, Nphi, Ltheta, Lphi, eta) ==
  [Etheta |-> CNeg(CAdd(Lphi, CMul(eta, Ntheta))),
   Ephi |-> CAdd(Ltheta, CMul(eta, Nphi)),
   Er |-> CZero]

\* Hr taken from Etheta instead of zeros
FarHRadial(E, eta) ==
  [Htheta |-> CDiv(CNeg(E.Ephi), eta), Hphi |-> CDiv(E.Etheta, eta), Hr |-> E.Etheta]

\* lines 508-513
FarE(Ntheta, Nphi, Ltheta, Lphi, eta) ==
  [Etheta |-> CNeg(CAdd(Lphi, CMul(eta, Ntheta))),
   Ephi |-> CSub(Ltheta, CMul(eta, Nphi)),
   Er |-> CZero]
FarH(E, eta) ==
  [Htheta |-> CDiv(CNeg(E.Ephi), eta), Hphi |-> CDiv(E.Etheta, eta), Hr |-> CZero]

\* lines 447-460: the phase factors of the source points along x, y and z
\* for every angle pair
FarPhases(currents, propagation_factor, theta, phi) ==
  [x |-> Eager([k \in (1..Len(currents.x)) \X (1..Len(theta)) \X (1..Len(phi)) |->
           Cexp(CMul(CMul(propagation_factor, currents.x[k[1]]),
                     CMul(SinOf(theta[k[2]]), CosOf(phi[k[3]]))))]),
   y |-> Eager([k \in (1..Len(currents.y)) \X (1..Len(theta)) \X (1..Len(phi)) |->
           Cexp(CMul(CMul(propagation_factor, currents.y[k[1]]),
                     CMul(SinOf(theta[k[2]]), SinOf(phi[k[3]]))))]),
   z |-> Eager([k \in (1..Len(currents.z)) \X (1..Len(theta)) |->
           Cexp(CMul(CMul(propagation_factor, currents.z[k[1]]), CosOf(theta[k[2]])))])]

\* line 468: one current component at frequency index fi times the phase
\* factors of angle pair (t, p), on the source points
Contract(currents, name, fi, phase, t, p) ==
  LET shape == <<Len(currents.x), Len(currents.y), Len(currents.z)>>
  IN  [shape |-> shape,
       val |-> Eager([x \in Indices(shape) |->
                 CMul(CMul(phase.x[<<x[1], t, p>>], phase.y[<<x[2], t, p>>]),
                      CMul(phase.z[<<x[3], t>>], currents.data[name][x \o <<fi>>]))])]

\* lines 431-439 and 470-479: the integral of a contracted component
FarIntegral(sim, surface, currents, ary) ==
  LET pts == <<currents.x, currents.y, currents.z>>
      idx_uv == PopAxis(<<0, 1, 2>>, SurfaceAxis(surface))[2]
  IN  IF Computed(ary) /\ Is2dSimulation(sim)
      THEN TrapezoidAxis(ary, pts[IntegrationAxis1d(sim, surface) + 1],
                         IntegrationAxis1d(sim, surface))
      ELSE Trapezoid(ary, <<pts[idx_uv[1] + 1], pts[idx_uv[2] + 1]>>, idx_uv)

\* the sine and the cosine of theta exchanged
FarAtSwapped(jm, order, eta, theta, phi) ==
  LET J == [i \in 0..2 |-> PlaceFar(jm, order, 0, i)]
      M == [i \in 0..2 |-> PlaceFar(jm, order, 2, i)]
      sin_theta == CosOf(theta)
      cos_theta == SinOf(theta)
      sin_phi == SinOf(phi)
      cos_phi == CosOf(phi)
      cos_theta_cos_phi == CMul(cos_theta, cos_phi)
      cos_theta_sin_phi == CMul(cos_theta, sin_phi)
      Ntheta == CSub(CAdd(CMul(J[0], cos_theta_cos_phi), CMul(J[1], cos_theta_sin_phi)),
                     CMul(J[2], sin_theta))
      Nphi == CAdd(CNeg(CMul(J[0], sin_phi)), CMul(J[1], cos_phi))
      Ltheta == CSub(CAdd(CMul(M[0], cos_theta_cos_phi), CMul(M[1], cos_theta_sin_phi)),
                     CMul(M[2], sin_theta))
      Lphi == CAdd(CNeg(CMul(M[0], sin_phi)), CMul(M[1], cos_phi))
  IN  [E |-> FarE(Ntheta, Nphi, Ltheta, Lphi, eta),
       N |-> <<Ntheta, Nphi>>, L |-> <<Ltheta, Lphi>>]

\* lines 483-513 for one angle pair: jm holds the four integrals
FarAt(jm, order, eta, theta, phi) ==
  LET J == [i \in 0..2 |-> PlaceFar(jm, order, 0, i)]
      M == [i \in 0..2 |-> PlaceFar(jm, order, 2, i)]
      sin_theta == SinOf(theta)
      cos_theta == CosOf(theta)
      sin_phi == SinOf(phi)
      cos_phi == CosOf(phi)
      cos_theta_cos_phi == CMul(cos_theta, cos_phi)
      cos_theta_sin_phi == CMul(cos_theta, sin_phi)
      Ntheta == CSub(CAdd(CMul(J[0], cos_theta_cos_phi), CMul(J[1], cos_theta_sin_phi)),
                     CMul(J[2], sin_theta))
      Nphi == CAdd(CNeg(CMul(J[0], sin_phi)), CMul(J[1], cos_phi))
      Ltheta == CSub(CAdd(CMul(M[0], cos_theta_cos_phi), CMul(M[1], cos_theta_sin_phi)),
                     CMul(M[2], sin_theta))
      Lphi == CAdd(CNeg(CMul(M[0], sin_phi)), CMul(M[1], cos_phi))
  IN  [E |-> FarE(Ntheta, Nphi, Ltheta, Lphi, eta),
       N |-> <<Ntheta, Nphi>>, L |-> <<Ltheta, Lphi>>]

\* line 515: Er, Etheta, Ephi, Hr, Htheta, Hphi of one angle pair
FarSix(e, eta) == <<e.Er, e.Etheta, e.Ephi, FarH(e, eta).Hr, FarH(e, eta).Htheta, FarH(e, eta).Hphi>>

\* line 515: the array of the six components, from their values all[<<t, p>>]
FarArray(all, name) ==
  [err |-> "none", monitor |-> name,
   val |-> Eager([k \in (1..6) \X {tp[1] : tp \in DOMAIN all} \X {tp[2] : tp \in DOMAIN all} |->
                    all[<<k[2], k[3]>>][k[1]]])]

\* line 506: the impedance of the medium
Eta(medium, frequency) == CDiv(CInt(ETA_0), CInt(Sqrt(EpsModel(medium, frequency)[1])))

\* lines 506-515: the six components from the integrals of every angle pair
FarAssemble(integral, surface, medium, frequency, theta, phi) ==
  CASE Computed(integral) ->
  LET idx_w == PopAxis(<<0, 1, 2>>, SurfaceAxis(surface))[1]
      idx_uv == PopAxis(<<0, 1, 2>>, SurfaceAxis(surface))[2]
      order == <<idx_uv[1], idx_uv[2], idx_w>>
      eta == Eta(medium, frequency)
      one(r) == r.val[CHOOSE x \in DOMAIN r.val : TRUE]
      at(t, p) == FarSix(FarAt([c \in 1..4 |-> one(integral[<<c, t, p>>])],
                               order, eta, theta[t], phi[p]).E, eta)
  IN  \* line 481: the reshape needs one value per angle pair
      IF \E k \in DOMAIN integral :
           integral[k].err # "none" \/ Cardinality(DOMAIN integral[k].val) # 1
      THEN Raise("ValueError", surface.monitor.name)
      ELSE FarArray(Eager([tp \in (1..Len(theta)) \X (1..Len(phi)) |-> at(tp[1], tp[2])]),
                    surface.monitor.name)

\* the integrals of the four current components for every angle pair
FarIntegrals(sim, surface, currents, fi, phase, theta, phi) ==
  LET source_names == PopAxis(<<"x", "y", "z">>, SurfaceAxis(surface))[2]
      names == <<EName(source_names[1]), EName(source_names[2]),
                 HName(source_names[1]), HName(source_names[2])>>
  IN  CASE Computed(phase) ->
      Eager([k \in (1..4) \X (1..Len(theta)) \X (1..Len(phi)) |->
               FarIntegral(sim, surface, currents,
                           Contract(currents, names[k[1]], fi, phase, k[2], k[3]))])

FarFieldsForSurface(sim, frequency, theta, phi, surface, currents, medium) ==
  LET fi == SelF(currents, frequency)
      propagation_factor == CMul(CNeg(CJ), Wavenumber(medium, frequency))
  IN  IF fi = 0 THEN Raise("SetupError", surface.monitor.name)
      ELSE FarAssemble(FarIntegrals(sim, surface, currents, fi,
                                    FarPhases(currents, propagation_factor, theta, phi),
                                    theta, phi),
                       surface, medium, frequency, theta, phi)

(***************************************************************************)
(* Coordinate transformations of Geometry.  An angle is <<sin, cos>>.      *)
(***************************************************************************)
\* car_2_sph(x, y, z) = (r, arccos(z / r), arctan2(y, x)) for r > 0
Car2SphOf(rho, r, x, y, z) ==
  [r |-> r,
   theta |-> <<CDiv(rho, r), CDiv(z, r)>>,
   phi |-> IF rho = CZero THEN <<CZero, COne>> ELSE <<CDiv(y, rho), CDiv(x, rho)>>]
Car2Sph(x, y, z) ==
  Car2SphOf(RSqrt(CAdd(CMul(x, x), CMul(y, y))),
            RSqrt(CAdd(CAdd(CMul(x, x), CMul(y, y)), CMul(z, z))), x, y, z)

\* sph_2_car(r, theta, phi)
Sph2Car(r, theta, phi) ==
  <<CMul(r, CMul(SinOf(theta), CosOf(phi))),
    CMul(r, CMul(SinOf(theta), SinOf(phi))),
    CMul(r, CosOf(theta))>>

\* car_2_sph_field(f_x, f_y, f_z, theta, phi) = (f_r, f_theta, f_phi)
Car2SphField(f, theta, phi) ==
  <<CAdd(CAdd(CMul(f[1], CMul(SinOf(theta), CosOf(phi))),
              CMul(f[2], CMul(SinOf(theta), SinOf(phi)))),
         CMul(f[3], CosOf(theta))),
    CSub(CAdd(CMul(f[1], CMul(CosOf(theta), CosOf(phi))),
              CMul(f[2], CMul(CosOf(theta), SinOf(phi)))),
         CMul(f[3], SinOf(theta))),
    CAdd(CNeg(CMul(f[1], SinOf(phi))), CMul(f[2], CosOf(phi)))>>

\* sph_2_car_field(f_r, f_theta, f_phi, theta, phi) = (f_x, f_y, f_z)
Sph2CarField(f, theta, phi) ==
  <<CSub(CAdd(CMul(f[1], CMul(SinOf(theta), CosOf(phi))),
              CMul(f[2], CMul(CosOf(theta), CosOf(phi)))),
         CMul(f[3], SinOf(phi))),
    CAdd(CAdd(CMul(f[1], CMul(SinOf(theta), SinOf(phi))),
              CMul(f[2], CMul(CosOf(theta), SinOf(phi)))),
         CMul(f[3], CosOf(phi))),
    CSub(CMul(f[1], CosOf(theta)), CMul(f[2], SinOf(theta)))>>

(***************************************************************************)
(* FieldProjector._fields_for_surface_exact                                *)
(***************************************************************************)
\* lines 916-922
RxCurrent(current, theta, phi) ==
  <<CSub(CMul(CMul(SinOf(theta), SinOf(phi)), current[3]), CMul(CosOf(theta), current[2])),
    CSub(CMul(CosOf(theta), current[1]), CMul(CMul(SinOf(theta), CosOf(phi)), current[3])),
    CSub(CMul(CMul(SinOf(theta), CosOf(phi)), current[2]),
         CMul(CMul(SinOf(theta), SinOf(phi)), current[1]))>>

\* lines 924-930
RDotCurrent(current, theta, phi) ==
  CAdd(CAdd(CMul(CMul(SinOf(theta), CosOf(phi)), current[1]),
            CMul(CMul(SinOf(theta), SinOf(phi)), current[2])),
       CMul(CosOf(theta), current[3]))

\* lines 932-938
RDotCurrentDtheta(current, theta, phi) ==
  CSub(CAdd(CMul(CMul(CosOf(theta), CosOf(phi)), current[1]),
            CMul(CMul(CosOf(theta), SinOf(phi)), current[2])),
       CMul(SinOf(theta), current[3]))

\* lines 940-943
RDotCurrentDphiDivSinTheta(current, theta, phi) ==
  CAdd(CNeg(CMul(SinOf(phi), current[1])), CMul(CosOf(phi), current[2]))

\* lines 912-913: dG_dr and d2G_dr2 from G
GreensDerivatives(G, dG_dr, ikr, r) ==
  CASE Computed(dG_dr) ->
    [G |-> G, dG_dr |-> dG_dr,
     d2G_dr2 |-> CAdd(CDiv(CMul(dG_dr, CSub(ikr, COne)), r), CDiv(G, CMul(r, r)))]

GreensOf(G, ikr, r) ==
  CASE Computed(G) /\ Computed(ikr) ->
    GreensDerivatives(G, CDiv(CMul(G, CSub(ikr, COne)), r), ikr, r)

\* lines 910-913: G, dG_dr and d2G_dr2 at distance r
Greens(wavenumber, r) ==
  GreensOf(CDiv(Cexp(CMul(CMul(CJ, wavenumber), r)), CMul(CInt(4 * PI), r)),
           CMul(CMul(CJ, wavenumber), r), r)

\* lines 945-954
GradGrRDotCurrent(current, g, sph) ==
  Sph2CarField(<<CMul(g.d2G_dr2, RDotCurrent(current, sph.theta, sph.phi)),
                 CDiv(CMul(g.dG_dr, RDotCurrentDtheta(current, sph.theta, sph.phi)), sph.r),
                 CDiv(CMul(g.dG_dr, RDotCurrentDphiDivSinTheta(current, sph.theta, sph.phi)),
                      sph.r)>>,
               sph.theta, sph.phi)

\* a vector times a scalar
Scale3(const, v) == <<CMul(const, v[1]), CMul(const, v[2]), CMul(const, v[3])>>

\* lines 956-963
PotentialTerms(current, const, g, sph) ==
  [pot |-> Scale3(CMul(const, g.G), current),
   curl_pot |-> Scale3(CMul(const, g.dG_dr), RxCurrent(current, sph.theta, sph.phi)),
   grad_div_pot |-> Scale3(const, GradGrRDotCurrent(current, g, sph))]

\* lines 972-975 (sign = -1, const = epsilon) and 978-981 (sign = 1, const =
\* MU_0): i_omega * (a + grad_div_a / wavenumber**2) + sign * curl_f / const
FieldIntegrand(a, f, i_omega, wavenumber, sign, const) ==
  [i \in 1..3 |->
     CAdd(CMul(i_omega, CAdd(a.pot[i], CDiv(a.grad_div_pot[i], CMul(wavenumber, wavenumber)))),
          CScale(sign, CDiv(f.curl_pot[i], const)))]

\* lines 972-981: the six integrands e_x, e_y, e_z, h_x, h_y, h_z from the
\* potential terms of J (a) and of M (f)
ExactEH(a, f, i_omega, wavenumber, epsilon) ==
  CASE Computed(a) /\ Computed(f) /\ Computed(i_omega) /\ Computed(epsilon) ->
    FieldIntegrand(a, f, i_omega, wavenumber, -1, epsilon)
    \o FieldIntegrand(f, a, i_omega, wavenumber, 1, MU_0)

\* lines 966-969 with the Green's function terms g
ExactPotentials(J, M, g, sph, i_omega, wavenumber, epsilon) ==
  CASE Computed(sph) /\ Computed(g) /\ Computed(J) /\ Computed(M) /\ Computed(wavenumber) ->
    ExactEH(PotentialTerms(J, MU_0, g, sph), PotentialTerms(M, epsilon, g, sph),
            i_omega, wavenumber, epsilon)

\* lines 859-864 and 910-981 at one source point and one frequency
ExactIntegrands(J, M, frequency, medium, sph) ==
  ExactPotentials(J, M, Greens(Wavenumber(medium, frequency), sph.r), sph,
                  CMul(CJ, CInt(2 * PI * frequency)), Wavenumber(medium, frequency),
                  CMul(EPSILON_0, EpsModel(medium, frequency)))

\* lines 881-896: anp.array([c1, c2, zeros])[order] at one point
PlaceExact(c1, c2, order) ==
  [i \in 1..3 |-> <<c1, c2, CZero>>[order[i] + 1]]

\* the length of two axes broadcast together, 0 when they cannot be
Broadcast(n, m) == IF n = m \/ m = 1 THEN n ELSE IF n = 1 THEN m ELSE 0

\* lines 866-981: the six integrands on the source points and frequencies
ExactIntegrandArray(freqs, obs, surface, currents, medium) ==
  LET idx_w == PopAxis(<<0, 1, 2>>, SurfaceAxis(surface))[1]
      idx_uv == PopAxis(<<0, 1, 2>>, SurfaceAxis(surface))[2]
      source_names == PopAxis(<<"x", "y", "z">>, SurfaceAxis(surface))[2]
      order == <<idx_uv[1], idx_uv[2], idx_w>>
      nf == Broadcast(Len(freqs), Len(currents.f))
      shape == <<Len(currents.x), Len(currents.y), Len(currents.z), nf>>
      data(name, t) == currents.data[name][[t EXCEPT ![4] = IF Len(currents.f) = 1 THEN 1 ELSE t[4]]]
      at(t) ==
        ExactIntegrands(
          PlaceExact(data(EName(source_names[1]), t), data(EName(source_names[2]), t), order),
          PlaceExact(data(HName(source_names[1]), t), data(HName(source_names[2]), t), order),
          freqs[IF Len(freqs) = 1 THEN 1 ELSE t[4]], medium,
          Car2Sph(CSub(obs[1], currents.x[t[1]]), CSub(obs[2], currents.y[t[2]]),
                  CSub(obs[3], currents.z[t[3]])))
  IN  [shape |-> shape, val |-> Eager([t \in Indices(shape) |-> at(t)])]

\* lines 984-989: the integral of integrand c (1..6) over the surface
ExactIntegral(integrands, c, surface, currents) ==
  LET pts == <<currents.x, currents.y, currents.z>>
      idx_uv == PopAxis(<<0, 1, 2>>, SurfaceAxis(surface))[2]
  IN  Trapezoid([shape |-> integrands.shape,
                 val |-> Eager([t \in DOMAIN integrands.val |-> integrands.val[t][c]])],
                <<pts[idx_uv[1] + 1], pts[idx_uv[2] + 1]>>, idx_uv)

\* the six integrals
ExactIntegralsOf(integrands, surface, currents) ==
  CASE Computed(integrands) ->
    Eager([c \in 1..6 |-> ExactIntegral(integrands, c, surface, currents)])

\* the array whose entry <<c>> \o t is component c of all[t]
ExactPick(all, shape) ==
  Eager([k \in Indices(<<6>> \o shape) |-> all[Tail(k)][k[1]]])

\* lines 991-998: the array of Er, Etheta, Ephi, Hr, Htheta, Hphi from the
\* six integrals, of shape <<6>> \o the integrals' shape
ExactArray(integral, sph, name) ==
  LET shape == integral[1].shape
      at(t) == Car2SphField(<<integral[1].val[t], integral[2].val[t], integral[3].val[t]>>,
                            sph.theta, sph.phi)
               \o Car2SphField(<<integral[4].val[t], integral[5].val[t], integral[6].val[t]>>,
                               sph.theta, sph.phi)
  IN  IF \E c \in 1..6 : integral[c].err # "none"
      THEN [err |-> integral[CHOOSE c \in 1..6 : integral[c].err # "none"].err,
            monitor |-> name, shape |-> <<>>, val |-> <<>>]
      ELSE [err |-> "none", monitor |-> name, shape |-> <<6>> \o shape,
            val |-> ExactPick(Eager([t \in Indices(shape) |-> at(t)]), shape)]

\* freqs stands for self.frequencies (line 858), obs for the point (x, y, z)
FieldsForSurfaceExact(freqs, obs, surface, currents, medium) ==
  IF Broadcast(Len(freqs), Len(currents.f)) = 0
  THEN [err |-> "ValueError", monitor |-> surface.monitor.name, shape |-> <<>>, val |-> <<>>]
  ELSE ExactArray(ExactIntegralsOf(ExactIntegrandArray(freqs, obs, surface, currents, medium),
                                   surface, currents),
                  Car2Sph(obs[1], obs[2], obs[3]), surface.monitor.name)

(***************************************************************************)
(* State.  call holds the arguments of the latest call and ret what the    *)
(* latest finished call returned or raised.  The others are the session of *)
(* one FieldProjector: the simulation data it was built on, the projector  *)
(* itself, its cached currents, and the locals of the projection under     *)
(* way: the output buffer fields, the position turn in its loops and the   *)
(* engine's latest output last_fields.                                     *)
(***************************************************************************)
VARIABLES call, ret, sim_data, projector, surface_currents, pc, fields, turn, last_fields,
          past

session == <<sim_data, projector, surface_currents, pc, fields, turn, last_fields, past>>

vars == <<call, ret, sim_data, projector, surface_currents, pc, fields, turn, last_fields,
          past>>

\* past: what the calls made so far have left behind, the data returned by
\* every call of project_fields and the projectors that were copied, each
\* with its cache of currents
NoPast == [results |-> <<>>, originals |-> <<>>]

NoCall == [op |-> "none"]

\* no projector: the static methods are called on their own
NoSession ==
  /\ sim_data = None /\ projector = None /\ surface_currents = None
  /\ pc = "static" /\ fields = <<>> /\ turn = 0 /\ last_fields = None
  /\ past = NoPast

\* bounds of the inputs
MaxField == 1

Dirs == {"+", "-"}

(***************************************************************************)
(* Calls of _fields_to_currents on field data recorded at one point        *)
(***************************************************************************)
FieldRange == -MaxField..MaxField

\* a surface monitor normal to axis a
PlaneMonitor(a) ==
  [name |-> "plane", center |-> <<0, 0, 0>>, size |-> [k \in 1..3 |-> IF k = a + 1 THEN 0 ELSE 4],
   freqs |-> <<1>>, fields |-> <<>>, seed |-> 0]

\* field data holding the value v[c] of each component c at the origin
PointData(monitor, v) ==
  [monitor |-> monitor,
   field_components |->
     [c \in FieldNames |->
        [coords |-> <<<<CZero>>, <<CZero>>, <<CZero>>, <<COne>>>>,
         val |-> Eager([t \in {<<1, 1, 1, 1>>} |-> v[c]])]]]

InitExtract == call = NoCall /\ ret = NoCall /\ NoSession

CallFieldsToCurrents ==
  /\ call = NoCall
  /\ UNCHANGED session
  /\ \E a \in Axes, d \in Dirs, e \in [1..3 -> FieldRange], h \in [1..3 -> FieldRange] :
       LET surface == [monitor |-> PlaneMonitor(a), normal_dir |-> d]
           v == [c \in FieldNames |->
                   IF CompIx(c) <= 3 THEN <<e[CompIx(c)], 1, 1>>
                   ELSE <<1, h[CompIx(c) - 3], 1>>]
           field_data == PointData(surface.monitor, v)
       IN  /\ call' = [op |-> "_fields_to_currents", field_data |-> field_data,
                       surface |-> surface]
           /\ ret' = FieldsToCurrents(field_data, surface)

NextExtract == CallFieldsToCurrents

SpecExtract == InitExtract /\ [][NextExtract]_vars

\* the vector of a field ("E" or "H") recorded in field_data at the origin
VectorAt(field_data, field) ==
  [k \in 1..3 |->
     field_data.field_components[IF field = "E" THEN EName(AxisName(k - 1))
                                 ELSE HName(AxisName(k - 1))].val[<<1, 1, 1, 1>>]]

\* the cross product of two vectors
Cross(u, w) ==
  <<CSub(CMul(u[2], w[3]), CMul(u[3], w[2])),
    CSub(CMul(u[3], w[1]), CMul(u[1], w[3])),
    CSub(CMul(u[1], w[2]), CMul(u[2], w[1]))>>

\* the unit normal of a surface
Normal(surface) ==
  [k \in 1..3 |-> IF k # SurfaceAxis(surface) + 1 THEN CZero
                  ELSE IF surface.normal_dir = "+" THEN COne ELSE CInt(-1)]

\* C1: _fields_to_currents returns, under the E-names, the in-plane components
\* of n x H and, under the H-names, those of -(n x E), n being the unit vector
\* of the surface's axis with the sign of its normal direction; the new monitor
\* lists exactly these four components
C1_EquivalencePrinciple ==
  call.op = "_fields_to_currents" =>
    LET surface == call.surface
        J == Cross(Normal(surface), VectorAt(call.field_data, "H"))
        nxE == Cross(Normal(surface), VectorAt(call.field_data, "E"))
        M == [k \in 1..3 |-> CNeg(nxE[k])]
        inplane == Axes \ {SurfaceAxis(surface)}
    IN  /\ DOMAIN ret.field_components =
             {EName(AxisName(k)) : k \in inplane} \cup {HName(AxisName(k)) : k \in inplane}
        /\ \A k \in inplane :
             /\ ret.field_components[EName(AxisName(k))].val[<<1, 1, 1, 1>>] = J[k + 1]
             /\ ret.field_components[HName(AxisName(k))].val[<<1, 1, 1, 1>>] = M[k + 1]
        /\ {ret.monitor.fields[i] : i \in 1..4} = DOMAIN ret.field_components

\* a call on a surface of odd axis and normal direction "-" whose currents are
\* not zero
C1_Witness ==
  /\ call.op = "_fields_to_currents"
  /\ SurfaceAxis(call.surface) = 1
  /\ call.surface.normal_dir = "-"
  /\ ret.field_components["Ex"].val[<<1, 1, 1, 1>>] = <<-1, -1, 1>>
  /\ ret.field_components["Hz"].val[<<1, 1, 1, 1>>] = <<1, -1, 1>>

(***************************************************************************)
(* Calls of trapezoid on constant arrays over uniformly spaced points      *)
(***************************************************************************)
MaxDim == 3
MaxPts == 3
MaxStep == 2

\* the arrays' shapes
Shapes == UNION {[1..n -> 1..MaxPts] : n \in 1..MaxDim}

\* n points 0, h, 2h, ...
UniformPts(n, h) == [i \in 1..n |-> CInt((i - 1) * h)]

ConstArray(shape, c) == [shape |-> shape, val |-> Eager([t \in Indices(shape) |-> c])]

\* the tuples of one or two different axes of an array of ndim dimensions
AxesTuples(ndim) ==
  {<<a>> : a \in 0..(ndim - 1)} \cup
  {p \in (0..(ndim - 1)) \X (0..(ndim - 1)) : p[1] # p[2]}

InitTrapezoid == call = NoCall /\ ret = NoCall /\ NoSession

\* trapezoid(ary, pts, axes) with a tuple of axes
CallTrapezoid ==
  /\ call = NoCall
  /\ UNCHANGED session
  /\ \E shape \in Shapes, k \in 1..(MaxField + 1), h \in 1..MaxStep :
       \E axes \in AxesTuples(Len(shape)) :
         LET ary == ConstArray(shape, <<k, 1, 1>>)
             pts == [i \in 1..Len(axes) |-> UniformPts(shape[axes[i] + 1], h)]
         IN  /\ call' = [op |-> "trapezoid", ary |-> ary, pts |-> pts, axes |-> axes,
                         c |-> <<k, 1, 1>>, h |-> h]
             /\ ret' = Trapezoid(ary, pts, axes)

\* trapezoid(ary, pt, axis) with one axis that is not an iterable
CallTrapezoidAxis ==
  /\ call = NoCall
  /\ UNCHANGED session
  /\ \E shape \in Shapes, k \in 1..(MaxField + 1), h \in 1..MaxStep :
       \E axis \in 0..(Len(shape) - 1) :
         LET ary == ConstArray(shape, <<k, 1, 1>>)
             pt == UniformPts(shape[axis + 1], h)
         IN  /\ call' = [op |-> "trapezoid", ary |-> ary, pts |-> <<pt>>, axes |-> <<axis>>,
                         c |-> <<k, 1, 1>>, h |-> h]
             /\ ret' = TrapezoidAxis(ary, pt, axis)

NextTrapezoid == CallTrapezoid \/ CallTrapezoidAxis

SpecTrapezoid == InitTrapezoid /\ [][NextTrapezoid]_vars

\* the span of the points of axis a, or 1 when the axis has one point
SpanOrOne(shape, a, h) == IF shape[a + 1] >= 2 THEN (shape[a + 1] - 1) * h ELSE 1

RECURSIVE SpanProduct(_, _, _, _)
SpanProduct(shape, axes, h, i) ==
  IF i > Len(axes) THEN 1 ELSE SpanOrOne(shape, axes[i], h) * SpanProduct(shape, axes, h, i + 1)

\* the shape without the axes integrated
RemainingShape(shape, axes) ==
  LET keep == {k \in 1..Len(shape) : \A i \in 1..Len(axes) : axes[i] + 1 # k}
      pos(j) == CHOOSE k \in keep : Cardinality({m \in keep : m < k}) = j - 1
  IN  [j \in 1..Cardinality(keep) |-> shape[pos(j)]]

\* C9: trapezoid of a constant array over uniformly spaced points returns the
\* constant times the span of every integrated axis of two or more points,
\* leaves the value unscaled along an integrated axis of one point, and
\* removes every integrated axis from the result, for one axis and for
\* several axes in one call
C9_ConstantIntegral ==
  call.op = "trapezoid" =>
    /\ ret.err = "none"
    /\ ret.shape = RemainingShape(call.ary.shape, call.axes)
    /\ \A t \in DOMAIN ret.val :
         ret.val[t] = CScale(SpanProduct(call.ary.shape, call.axes, call.h, 1), call.c)

\* the same, for the calls whose axes are in ascending order
C9_AscendingAxes ==
  (call.op = "trapezoid" /\ \A i \in 1..(Len(call.axes) - 1) : call.axes[i] < call.axes[i + 1]) =>
    /\ ret.err = "none"
    /\ ret.shape = RemainingShape(call.ary.shape, call.axes)
    /\ \A t \in DOMAIN ret.val :
         ret.val[t] = CScale(SpanProduct(call.ary.shape, call.axes, call.h, 1), call.c)

(***************************************************************************)
(* Calls of _resample_surface_currents with a numeric pts_per_wavelength   *)
(***************************************************************************)
MaxPpw == 2
MaxFreq == 2

GridLines == <<-4, -2, 0, 2, 4>>

\* a simulation of size 8 centred at the origin; the axes in flat have size 0
Simulation(flat) ==
  [center |-> <<0, 0, 0>>,
   size |-> [k \in 1..3 |-> IF k - 1 \in flat THEN 0 ELSE 8],
   boundaries |-> [k \in 1..3 |-> IF k - 1 \in flat THEN <<0>> ELSE GridLines]]

Vacuum == [n |-> 1]

\* the surface monitors resampled: normal to axis a, of in-plane sizes w,
\* moved by c along its first in-plane axis, recording the frequencies 1..f
ResampleMonitor(a, w, c, f) ==
  LET uv == PopAxis(<<1, 2, 3>>, a)[2]
  IN  [name |-> "plane",
       center |-> [k \in 1..3 |-> IF k = uv[1] THEN c ELSE 0],
       size |-> [k \in 1..3 |-> IF k = uv[1] THEN w[1] ELSE IF k = uv[2] THEN w[2] ELSE 0],
       freqs |-> [i \in 1..f |-> i], fields |-> <<>>, seed |-> 0]

InitResample == call = NoCall /\ ret = NoCall /\ NoSession

CallResampleSurfaceCurrents ==
  /\ call = NoCall
  /\ UNCHANGED session
  /\ \E flat \in {{}, {1}}, a \in Axes, w \in {<<4, 4>>, <<4, 12>>, <<6, 4>>, <<12, 6>>},
        c \in {0, 2}, f \in 1..MaxFreq,
        pts_per_wavelength \in {None} \cup {Some(ppw) : ppw \in 1..MaxPpw} :
       LET sim == Simulation(flat)
           surface == [monitor |-> ResampleMonitor(a, w, c, f), normal_dir |-> "+"]
           currents == FieldsToCurrents(MonitorData(sim, surface.monitor), surface)
       IN  /\ call' = [op |-> "_resample_surface_currents", sim |-> sim, surface |-> surface,
                       medium |-> Vacuum, pts_per_wavelength |-> pts_per_wavelength]
           /\ ret' = ResampleSurfaceCurrents(currents, sim, surface, Vacuum, pts_per_wavelength)

NextResample == CallResampleSurfaceCurrents

SpecResample == InitResample /\ [][NextResample]_vars

\* a call with a numeric density, or with None, has returned its currents
Resampled ==
  call.op = "_resample_surface_currents" /\ call.pts_per_wavelength # None /\ ret.err = "none"
Unresampled ==
  call.op = "_resample_surface_currents" /\ call.pts_per_wavelength = None /\ ret.err = "none"

\* the coordinates of a dataset along axis idx
CoordsOf(ds, idx) == CASE idx = 0 -> ds.x [] idx = 1 -> ds.y [] idx = 2 -> ds.z

\* n points uniformly spaced from start to stop inclusive
IsUniform(pts, start, stop) ==
  /\ pts[1] = start
  /\ pts[Len(pts)] = stop
  /\ \A i \in 2..(Len(pts) - 1) :
       CSub(pts[i + 1], pts[i]) = CSub(pts[i], pts[i - 1])

\* ceil(pts_per_wavelength * span / wavelength) of the call, wavelength =
\* C_0 / (f_max * n)
ExpectedCount(idx) ==
  LET monitor == call.surface.monitor
      span == CSub(SampleStop(call.sim, monitor, idx), SampleStart(call.sim, monitor, idx))
      wavelength == CRat(C_0, SeqMax(monitor.freqs) * call.medium.n)
  IN  Ceil(CDiv(CMul(CInt(The(call.pts_per_wavelength)), span), wavelength))

InPlaneAxes(surface) == Axes \ {SurfaceAxis(surface)}

LowerEdge(box, idx) == CSub(CInt(box.center[idx + 1]), CRat(box.size[idx + 1], 2))
UpperEdge(box, idx) == CAdd(CInt(box.center[idx + 1]), CRat(box.size[idx + 1], 2))

\* the sampling bounds of the call on axis idx: the intersection of the
\* monitor's extent and the simulation's
LowerBound(idx) ==
  IF RLe(LowerEdge(call.surface.monitor, idx), LowerEdge(call.sim, idx))
  THEN LowerEdge(call.sim, idx) ELSE LowerEdge(call.surface.monitor, idx)
UpperBound(idx) ==
  IF RLe(UpperEdge(call.surface.monitor, idx), UpperEdge(call.sim, idx))
  THEN UpperEdge(call.surface.monitor, idx) ELSE UpperEdge(call.sim, idx)

\* v with values below the lower bound replaced by it and values above the
\* upper bound replaced by it
Clipped(v, idx) ==
  IF RLt(v, LowerBound(idx)) THEN LowerBound(idx)
  ELSE IF RLt(UpperBound(idx), v) THEN UpperBound(idx) ELSE v

\* the grid boundaries of the simulation on axis idx, each clipped
ClippedBoundaries(idx) ==
  [i \in 1..Len(call.sim.boundaries[idx + 1]) |->
     Clipped(CInt(call.sim.boundaries[idx + 1][i]), idx)]

\* seq is strictly increasing and holds exactly the values of all
Distinct(seq, all) ==
  /\ {seq[i] : i \in 1..Len(seq)} = {all[i] : i \in 1..Len(all)}
  /\ \A i \in 1..(Len(seq) - 1) : RLt(seq[i], seq[i + 1])

\* C11, as stated: with pts_per_wavelength = None the coordinates of every
\* in-plane axis are the sequence of the simulation's grid boundaries on the
\* axis, each clipped into the sampling bounds
C11_ClippedSequence ==
  Unresampled =>
    \A idx \in InPlaneAxes(call.surface) : CoordsOf(ret, idx) = ClippedBoundaries(idx)

\* C11, amended: the coordinates are the distinct clipped boundaries in
\* ascending order; when one value is left, the axis is not colocated and
\* keeps the coordinates of the monitor's data
C11_DistinctClipped ==
  Unresampled =>
    \A idx \in InPlaneAxes(call.surface) :
      /\ Distinct(CoordsOf(ret, idx), ClippedBoundaries(idx))
      /\ Len(CoordsOf(ret, idx)) = 1 =>
           CoordsOf(ret, idx) = NativeCoords(call.sim, call.surface.monitor, idx)

\* a call without resampling on a monitor that ends between grid lines: two
\* boundaries lie below the lower bound, and the coordinates hold the bound
\* once, the lines between the bounds, and the upper bound
C11_Witness ==
  /\ Unresampled
  /\ \E idx \in InPlaneAxes(call.surface) :
       /\ LowerBound(idx) = CInt(-3) /\ UpperBound(idx) = CInt(3)
       /\ CoordsOf(ret, idx) = <<CInt(-3), CInt(-2), CInt(0), CInt(2), CInt(3)>>
  /\ \E idx \in InPlaneAxes(call.surface) : Len(CoordsOf(ret, idx)) = 1

C12_WitnessNative ==
  /\ Unresampled
  /\ \E idx \in InPlaneAxes(call.surface) :
       /\ RLt(LowerEdge(call.surface.monitor, idx), LowerEdge(call.sim, idx))
       /\ CoordsOf(ret, idx)[1] = LowerEdge(call.sim, idx)


(***************************************************************************)
(* FieldProjector and the collaborators of a projection                    *)
(***************************************************************************)
\* lines 101-109: the mean of the centres of the surfaces' monitors
\* the center of the first monitor in place of the mean
SetOriginFirst(val, surfaces) ==
  IF val = None THEN Eager([k \in 1..3 |-> CInt(surfaces[1].monitor.center[k])])
  ELSE The(val)

SetOrigin(val, surfaces) ==
  IF val = None
  THEN Eager([k \in 1..3 |->
                CDiv(CSum([i \in 1..Len(surfaces) |-> CInt(surfaces[i].monitor.center[k])],
                          Len(surfaces)),
                     CInt(Len(surfaces)))])
  ELSE The(val)

\* lines 111-116: sim.monitor_medium of the first surface's monitor; the
\* simulations of the model are empty space
Medium(p) == Vacuum

\* lines 118-121
Frequencies(p) == p.surfaces[1].monitor.freqs

\* the principal square root of a complex number
CSqrt(z) ==
  LET re == <<z[1], 0, z[3]>>
      im == <<z[2], 0, z[3]>>
      mod == RSqrt(CAdd(CMul(re, re), CMul(im, im)))
      a == RSqrt(CDiv(CAdd(mod, re), CInt(2)))
      b == RSqrt(CDiv(CSub(mod, re), CInt(2)))
  IN  CAdd(a, CMul(CJ, IF z[2] < 0 THEN CNeg(b) ELSE b))

\* AbstractFieldProjectionData.propagation_factor(dist, k, is_2d_simulation)
PropagationFactor(dist, k, is_2d_simulation) ==
  IF dist = None THEN COne
  ELSE IF is_2d_simulation
  THEN CNeg(CMul(Cexp(CMul(CJ, CMul(k, The(dist)))),
                 CSqrt(CDiv(CMul(CJ, k), CMul(CInt(8 * PI), The(dist))))))
  ELSE CDiv(CMul(CMul(CNeg(CJ), k), Cexp(CMul(CJ, CMul(k, The(dist))))),
            CMul(CInt(4 * PI), The(dist)))

\* Geometry.kspace_2_sph(ux, uy, axis): the angles theta and phi of the
\* direction whose cosines in the plane normal to axis are ux and uy; first
\* the angles about the axis, then their rotation for the axes 0 and 1
Kspace2SphRotated(x, y, z, axis) ==
  IF axis = 1 THEN Car2Sph(CNeg(z), x, CNeg(y)) ELSE Car2Sph(x, y, z)
Kspace2SphAngles(sph) == <<sph.theta, sph.phi>>
Kspace2SphLocal(sin_l, cos_l, phi_l, axis) ==
  IF axis = 2 THEN <<<<sin_l, cos_l>>, phi_l>>
  ELSE Kspace2SphAngles(Kspace2SphRotated(cos_l, CMul(sin_l, SinOf(phi_l)),
                                          CNeg(CMul(sin_l, CosOf(phi_l))), axis))
Kspace2SphOf(sin_l, cos_l, ux, uy, axis) ==
  Kspace2SphLocal(sin_l, cos_l,
                  IF sin_l = CZero THEN <<CZero, COne>>
                  ELSE <<CDiv(uy, sin_l), CDiv(ux, sin_l)>>,
                  axis)
Kspace2Sph(ux, uy, axis) ==
  Kspace2SphOf(RSqrt(CAdd(CMul(ux, ux), CMul(uy, uy))),
               RSqrt(CSub(COne, CAdd(CMul(ux, ux), CMul(uy, uy)))), ux, uy, axis)

\* Geometry.unpop_axis(ax_coord, plane_coords, axis)
UnpopAxis(ax_coord, plane_coords, axis) == InsertAt(plane_coords, axis + 1, ax_coord)

\* window_parameters(custom_bounds): per axis the width of the taper, the
\* window's fraction of half the distance between the bounds, and the two
\* points between which the window is 1; the in-plane axes are those of the
\* monitor's first zero-size axis, and the third axis has no taper
WindowParameters(proj_monitor, custom_bounds) ==
  LET axis == CHOOSE a \in Axes : proj_monitor.size[a + 1] = 0
                                   /\ \A b \in Axes : proj_monitor.size[b + 1] = 0 => a <= b
      plane_inds == PopAxis(<<0, 1, 2>>, axis)[2]
      width(i, ind) == CDiv(CMul(CInt(proj_monitor.window_size[i]),
                                 CSub(custom_bounds[2][ind + 1], custom_bounds[1][ind + 1])),
                            CInt(2))
      of(i, ind) == [window_size |-> width(i, ind),
                     window_minus |-> CAdd(custom_bounds[1][ind + 1], width(i, ind)),
                     window_plus |-> CSub(custom_bounds[2][ind + 1], width(i, ind))]
  IN  Eager([dim \in Axes |->
               IF dim = plane_inds[1] THEN of(1, dim)
               ELSE IF dim = plane_inds[2] THEN of(2, dim)
               ELSE [window_size |-> CZero, window_minus |-> custom_bounds[1][dim + 1],
                     window_plus |-> custom_bounds[2][dim + 1]]])

\* the taper at the distance d outside the flat part of a window of width w,
\* a rational bell 1 / (1 + (d / w)^2) in place of exp(-(d / w)^2 / 2)
WindowTaper(d, w) == CDiv(COne, CAdd(COne, CMul(CDiv(d, w), CDiv(d, w))))

\* window_function(points, ..., dim): 1 between window_minus and
\* window_plus, the rising or the falling taper outside
WindowFunction(points, parameters, dim) ==
  LET w == parameters[dim]
  IN  Eager([i \in 1..Len(points) |->
               IF RLt(points[i], w.window_minus)
               THEN WindowTaper(CSub(w.window_minus, points[i]), w.window_size)
               ELSE IF RLt(w.window_plus, points[i])
               THEN WindowTaper(CSub(points[i], w.window_plus), w.window_size)
               ELSE COne])

\* the window of z left out
TimesWindowsXY(currents, windows) ==
  [currents EXCEPT
     !.data = Eager([c \in DOMAIN currents.data |->
                Eager([t \in DOMAIN currents.data[c] |->
                         CMul(CMul(currents.data[c][t], windows[1][t[1]]),
                              windows[2][t[2]])])])]

\* the windows of x, y and z added where they should be multiplied
TimesWindowsSummed(currents, windows) ==
  [currents EXCEPT
     !.data = Eager([c \in DOMAIN currents.data |->
                Eager([t \in DOMAIN currents.data[c] |->
                         CMul(currents.data[c][t],
                              CAdd(CAdd(windows[1][t[1]], windows[2][t[2]]),
                                   windows[3][t[3]]))])])]

\* lines 539-552: new_currents *= window_data for x, y and z in turn
TimesWindows(currents, windows) ==
  [currents EXCEPT
     !.data = Eager([c \in DOMAIN currents.data |->
                Eager([t \in DOMAIN currents.data[c] |->
                         CMul(CMul(CMul(currents.data[c][t], windows[1][t[1]]),
                                   windows[2][t[2]]),
                              windows[3][t[3]])])])]

\* lines 527-552: the windows of the three axes from the first and the last
\* point of each
Windowed(proj_monitor, currents, pts) ==
  TimesWindows(currents,
               Eager([k \in 1..3 |->
                        WindowFunction(pts[k],
                                       WindowParameters(proj_monitor,
                                                        <<[i \in 1..3 |-> pts[i][1]],
                                                          [i \in 1..3 |-> pts[i][Len(pts[i])]]>>),
                                       k - 1)]))

\* lines 517-554
ApplyWindowToCurrents(proj_monitor, currents) ==
  IF Cardinality({k \in 1..3 : proj_monitor.size[k] = 0}) = 0 THEN currents
  ELSE IF proj_monitor.window_size = <<0, 0>> THEN currents
  ELSE Windowed(proj_monitor, currents, <<currents.x, currents.y, currents.z>>)

\* the dataset passed, after the call, had the windows been multiplied into
\* it
CurrentsAfterWindowInPlace(proj_monitor, currents) ==
  ApplyWindowToCurrents(proj_monitor, currents)

\* lines 538-552: the dataset passed, after the call: the windows are
\* multiplied into new_currents, a deep copy of it
CurrentsAfterWindow(proj_monitor, currents) == currents

\* lines 183-185: the source coordinates relative to the local origin
ShiftCurrents(current_data, origin) ==
  IF current_data.err # "none" THEN current_data
  ELSE [current_data EXCEPT
          !.x = Eager([i \in 1..Len(current_data.x) |-> CSub(current_data.x[i], origin[1])]),
          !.y = Eager([i \in 1..Len(current_data.y) |-> CSub(current_data.y[i], origin[2])]),
          !.z = Eager([i \in 1..Len(current_data.z) |-> CSub(current_data.z[i], origin[3])])]

\* lines 169-189: the dict of currents by monitor name after the surfaces
\* 1..n have been stored in turn
RECURSIVE Currents(_, _, _)
Currents(sim, p, n) ==
  IF n = 0 THEN <<>>
  ELSE LET before == Currents(sim, p, n - 1)
           surface == p.surfaces[n]
           current_data == ShiftCurrents(ComputeSurfaceCurrents(sim, surface, Medium(p),
                                                                p.pts_per_wavelength),
                                         p.origin)
       IN  Eager([name \in DOMAIN before \cup {surface.monitor.name} |->
                    IF name = surface.monitor.name THEN current_data ELSE before[name]])

(***************************************************************************)
(* The observation grids.  A projection monitor is a record with kind      *)
(* "angle", "cartesian" or "kspace"; its buffer has the axes               *)
(* (component, g1, g2, g3, f).                                             *)
(***************************************************************************)
\* x, y and z of a Cartesian grid (lines 674-676)
CartesianPoints(monitor) ==
  UnpopAxis(<<monitor.proj_distance>>, <<monitor.x, monitor.y>>, monitor.proj_axis)

\* the lengths of the three grid axes of the buffer (lines 600, 680, 760)
GridShape(monitor) ==
  CASE monitor.kind = "angle" -> <<1, Len(monitor.theta), Len(monitor.phi)>>
    [] monitor.kind = "cartesian" ->
         <<Len(CartesianPoints(monitor)[1]), Len(CartesianPoints(monitor)[2]),
           Len(CartesianPoints(monitor)[3])>>
    [] monitor.kind = "kspace" -> <<Len(monitor.ux), Len(monitor.uy), 1>>

\* r, theta and phi of the grid point g (lines 693, 776; the angular grid
\* is its own)
AtDistance(r, angles) == [r |-> r, theta |-> angles[1], phi |-> angles[2]]
GridSph(monitor, g) ==
  CASE monitor.kind = "angle" ->
         AtDistance(CInt(monitor.proj_distance), <<monitor.theta[g[2]], monitor.phi[g[3]]>>)
    [] monitor.kind = "cartesian" ->
         Car2Sph(CInt(CartesianPoints(monitor)[1][g[1]]), CInt(CartesianPoints(monitor)[2][g[2]]),
                 CInt(CartesianPoints(monitor)[3][g[3]]))
    [] monitor.kind = "kspace" ->
         AtDistance(CInt(monitor.proj_distance),
                    Kspace2Sph(CInt(monitor.ux[g[1]]), CInt(monitor.uy[g[2]]), monitor.proj_axis))

\* the point handed to the exact engine (lines 636, 725, 795)
Sph2CarOf(sph) == Sph2Car(sph.r, sph.theta, sph.phi)
GridPoint(monitor, g) ==
  IF monitor.kind = "cartesian"
  THEN <<CInt(CartesianPoints(monitor)[1][g[1]]), CInt(CartesianPoints(monitor)[2][g[2]]),
         CInt(CartesianPoints(monitor)[3][g[3]])>>
  ELSE Sph2CarOf(GridSph(monitor, g))

\* the index tuple, 1-based, at position k (from 0) of the nest of loops
\* whose lengths are dims, the last innermost
RECURSIVE Unravel(_, _)
Unravel(k, dims) ==
  IF dims = <<>> THEN <<>>
  ELSE Append(Unravel(k \div dims[Len(dims)], SubSeq(dims, 1, Len(dims) - 1)),
              1 + (k % dims[Len(dims)]))

\* the lengths of the loops around one call of an engine: surfaces and
\* frequencies (lines 610-613), surfaces and angle pairs (626-632), grid
\* points, surfaces and frequencies (689-711, 772-784), or grid points and
\* surfaces
LoopDims(p, monitor) ==
  LET S == Len(p.surfaces)
      F == Len(Frequencies(p))
      G == GridShape(monitor)
  IN  IF monitor.kind = "angle"
      THEN IF monitor.far_field_approx THEN <<S, F>> ELSE <<S, G[2], G[3]>>
      ELSE IF monitor.far_field_approx THEN G \o <<S, F>> ELSE G \o <<S>>

RECURSIVE Product(_)
Product(dims) == IF dims = <<>> THEN 1 ELSE Head(dims) * Product(Tail(dims))

\* the loops left before their last iteration
NumTurnsLess(p, monitor) == Product(LoopDims(p, monitor)) - 1

\* the number of engine calls of the loops
NumTurns(p, monitor) == Product(LoopDims(p, monitor))

\* turn n of the loops: the surface s, the grid point g (<<>> when the call
\* covers the whole angular grid) and the frequency index f (0 when the
\* call covers every frequency)
TurnAt(p, monitor, n) ==
  LET t == Unravel(n - 1, LoopDims(p, monitor))
  IN  IF monitor.kind = "angle"
      THEN IF monitor.far_field_approx THEN [s |-> t[1], g |-> <<>>, f |-> t[2]]
           ELSE [s |-> t[1], g |-> <<1, t[2], t[3]>>, f |-> 0]
      ELSE IF monitor.far_field_approx THEN [s |-> t[4], g |-> SubSeq(t, 1, 3), f |-> t[5]]
           ELSE [s |-> t[4], g |-> SubSeq(t, 1, 3), f |-> 0]

\* the buffer of the call before, where it has the shape asked for
ZeroFieldsStale(p, monitor) ==
  LET shape == Indices(<<6>> \o GridShape(monitor) \o <<Len(Frequencies(p))>>)
      before == IF past.results = <<>> THEN [err |-> "no call"]
                ELSE past.results[Len(past.results)].outcome
  IN  IF before.err = "none" /\ DOMAIN before.fields = shape
      THEN before.fields
      ELSE Eager([k \in shape |-> CZero])

\* np.zeros((6, g1, g2, g3, len(freqs)))
ZeroFields(p, monitor) ==
  Eager([k \in Indices(<<6>> \o GridShape(monitor) \o <<Len(Frequencies(p))>>) |-> CZero])

\* the medium of the projection (lines 601, 681, 761)
ProjectionMedium(p, monitor) == IF monitor.medium = None THEN Medium(p) ELSE The(monitor.medium)

\* the factor of three dimensions, whatever the simulation
PhaseOf3d(sim, p, monitor, g, f) ==
  PropagationFactor(Some(GridSph(monitor, g).r),
                    Wavenumber(ProjectionMedium(p, monitor), Frequencies(p)[f]), FALSE)

\* phase[idx_f] of the far-field engine's output at the grid point g
Phase(sim, p, monitor, g, f) ==
  PropagationFactor(Some(GridSph(monitor, g).r),
                    Wavenumber(ProjectionMedium(p, monitor), Frequencies(p)[f]),
                    Is2dSimulation(sim))

\* the far-field engine at the one direction of sph
FarFieldsAt(sim, frequency, sph, surface, currents, medium) ==
  FarFieldsForSurface(sim, frequency, <<sph.theta>>, <<sph.phi>>, surface, currents, medium)

\* one call of an engine: turn t of the loops, on the currents stored for
\* the surface's monitor (lines 612-621, 629-632, 704-727, 786-798)
EngineOutput(sim, p, monitor, t, currents) ==
  LET surface == p.surfaces[t.s]
      medium == ProjectionMedium(p, monitor)
  IN  IF monitor.far_field_approx
      THEN IF monitor.kind = "angle"
           THEN FarFieldsForSurface(sim, Frequencies(p)[t.f], monitor.theta, monitor.phi,
                                    surface, currents, medium)
           ELSE FarFieldsAt(sim, Frequencies(p)[t.f], GridSph(monitor, t.g), surface, currents,
                            medium)
      ELSE FieldsForSurfaceExact(Frequencies(p), GridPoint(monitor, t.g), surface, currents,
                                 medium)

\* the number of values of an engine's output
OutputSize(monitor, out) ==
  IF monitor.far_field_approx THEN Cardinality(DOMAIN out.val) ELSE Product(out.shape)

\* the number of values of fields[where] (lines 624, 633, 717, 728)
WhereSize(p, monitor) ==
  IF monitor.far_field_approx
  THEN IF monitor.kind = "angle" THEN 6 * Len(monitor.theta) * Len(monitor.phi) ELSE 6
  ELSE 6 * Len(Frequencies(p))

\* what turn t adds to the entry k = <<c, g1, g2, g3, f>> of the buffer:
\* the far-field output times the phase of the frequency, or the exact
\* output reshaped to (6, len(freqs))
Contribution(sim, p, monitor, t, out, k) ==
  IF monitor.far_field_approx
  THEN IF k[5] # t.f THEN CZero
       ELSE IF monitor.kind = "angle"
       THEN CMul(out.val[<<k[1], k[3], k[4]>>], Phase(sim, p, monitor, SubSeq(k, 2, 4), t.f))
       ELSE IF SubSeq(k, 2, 4) # t.g THEN CZero
       ELSE CMul(out.val[<<k[1], 1, 1>>], Phase(sim, p, monitor, t.g, t.f))
  ELSE IF SubSeq(k, 2, 4) # t.g THEN CZero
       ELSE out.val[Unravel((k[1] - 1) * Len(Frequencies(p)) + k[5] - 1, out.shape)]

\* fields[where] = _fields: the value written over the cells of the turn
AddAtAssigned(buffer, sim, p, monitor, t, out) ==
  Eager([k \in DOMAIN buffer |->
           IF (t.g = <<>> \/ SubSeq(k, 2, 4) = t.g) /\ (t.f = 0 \/ k[5] = t.f)
           THEN Contribution(sim, p, monitor, t, out, k) ELSE buffer[k]])

\* add_at(fields, where, _fields)
AddAt(buffer, sim, p, monitor, t, out) ==
  Eager([k \in DOMAIN buffer |-> CAdd(buffer[k], Contribution(sim, p, monitor, t, out, k))])

(***************************************************************************)
(* The session: a projector is built from near-field monitors of the       *)
(* simulation data and projects onto observation grids.                    *)
(***************************************************************************)
MaxSurfaces == 2

\* the calls of project_fields that are kept in past
MaxCalls == 2

\* the sizes of the simulations: 3D, 2D, and flat along two axes
SimSizes == {<<4, 4, 4>>, <<4, 0, 4>>, <<0, 0, 4>>}

\* sim_data for a simulation of empty space with one cell per axis
SimulationData(size) ==
  [simulation |->
     [center |-> <<0, 0, 0>>, size |-> size,
      boundaries |-> Eager([k \in 1..3 |-> IF size[k] = 0 THEN <<0>> ELSE <<-2, 2>>])]]

\* the near-field monitors of the simulation
MonitorNames == {"top", "side", "front"}
NearMonitor(name) ==
  CASE name = "top" -> [name |-> "top", center |-> <<0, 0, 0>>, size |-> <<4, 4, 0>>,
                        freqs |-> <<1, 2>>, fields |-> <<>>, seed |-> 0]
    [] name = "side" -> [name |-> "side", center |-> <<0, 0, 0>>, size |-> <<0, 4, 4>>,
                         freqs |-> <<2>>, fields |-> <<>>, seed |-> 1]
    [] name = "front" -> [name |-> "front", center |-> <<0, 0, 0>>, size |-> <<4, 0, 4>>,
                          freqs |-> <<1, 2>>, fields |-> <<>>, seed |-> 2]

\* the angles 0 and pi/2
Angle0 == <<CZero, COne>>
Angle90 == <<COne, CZero>>

\* the distance of the observation grids
ProjDistance == 6

\* the projection monitors
AngleMonitor(far) ==
  [kind |-> "angle", far_field_approx |-> far, proj_distance |-> ProjDistance,
   theta |-> <<Angle0, Angle90>>, phi |-> <<Angle0>>,
   medium |-> None, size |-> <<0, 0, 0>>, window_size |-> <<0, 0>>]
CartesianMonitor(far) ==
  [kind |-> "cartesian", far_field_approx |-> far, proj_distance |-> ProjDistance,
   proj_axis |-> 2, x |-> <<0>>, y |-> <<0>>,
   medium |-> None, size |-> <<0, 0, 0>>, window_size |-> <<0, 0>>]
KSpaceMonitor(far) ==
  [kind |-> "kspace", far_field_approx |-> far, proj_distance |-> ProjDistance,
   proj_axis |-> 2, ux |-> <<0, 1>>, uy |-> <<0>>,
   medium |-> None, size |-> <<0, 0, 0>>, window_size |-> <<0, 0>>]
ProjectionMonitors ==
  {AngleMonitor(far) : far \in BOOLEAN} \cup {CartesianMonitor(far) : far \in BOOLEAN}
    \cup {KSpaceMonitor(far) : far \in BOOLEAN}

\* the local origins asked for: the default, and a point above the centre
Origins == {None, Some(<<CZero, CZero, CInt(2)>>)}

\* the sequences of length 1..n over S
SeqsUpTo(S, n) == UNION {[1..m -> S] : m \in 1..n}

\* the exact engine is run where its numbers fit the integers of the
\* model: with the local origin at the centre of the monitors
Fits(p, monitor) == monitor.far_field_approx \/ p.origin = <<CZero, CZero, CZero>>

\* every monitor paired with the first direction
SurfacesFirstDir(near_monitors, normal_dirs) ==
  Eager([i \in 1..Len(near_monitors) |->
           [monitor |-> near_monitors[i], normal_dir |-> normal_dirs[1]]])

\* lines 157-160: zip(near_monitors, normal_dirs), the counts being equal
Surfaces(near_monitors, normal_dirs) ==
  Eager([i \in 1..Len(near_monitors) |->
           [monitor |-> near_monitors[i], normal_dir |-> normal_dirs[i]]])

Init ==
  /\ call = NoCall /\ ret = NoCall
  /\ sim_data \in {SimulationData(size) : size \in SimSizes}
  /\ projector = None /\ surface_currents = None
  /\ pc = "idle" /\ fields = <<>> /\ turn = 0 /\ last_fields = None
  /\ past = NoPast

\* lines 123-167
FromNearFieldMonitors ==
  /\ pc = "idle"
  /\ \E near_monitors \in SeqsUpTo(MonitorNames, MaxSurfaces),
        normal_dirs \in SeqsUpTo(Dirs, MaxSurfaces), origin \in Origins :
       LET monitors == Eager([i \in 1..Len(near_monitors) |-> NearMonitor(near_monitors[i])])
           surfaces == Surfaces(monitors, normal_dirs)
       IN  /\ call' = [op |-> "from_near_field_monitors",
                       near_monitors |-> monitors,
                       normal_dirs |-> normal_dirs, pts_per_wavelength |-> None,
                       origin |-> origin]
           /\ IF Len(near_monitors) # Len(normal_dirs)
              THEN /\ ret' = [err |-> "SetupError"]
                   /\ UNCHANGED <<projector, pc>>
              ELSE /\ ret' = [err |-> "none"]
                   /\ projector' = Some([surfaces |-> surfaces, pts_per_wavelength |-> None,
                                         origin |-> SetOrigin(origin, surfaces)])
                   /\ pc' = "ready"
  /\ UNCHANGED <<sim_data, surface_currents, fields, turn, last_fields, past>>

\* lines 556-576 and the start of the method dispatched to: the buffer of
\* zeros (lines 600, 680, 760)
ProjectFields ==
  /\ pc = "ready"
  /\ Len(past.results) < MaxCalls
  /\ \E monitor \in ProjectionMonitors :
       /\ Fits(The(projector), monitor)
       /\ call' = [op |-> "project_fields", proj_monitor |-> monitor]
       /\ fields' = ZeroFields(The(projector), monitor)
  /\ ret' = NoCall
  /\ turn' = 1
  /\ pc' = "projecting"
  /\ last_fields' = None
  /\ UNCHANGED <<sim_data, projector, surface_currents, past>>

\* the exception e of monitor name leaves the method
Raised(e, name) ==
  /\ ret' = [err |-> e, monitor |-> name]
  /\ pc' = "ready"
  /\ fields' = <<>>
  /\ turn' = 0
  /\ last_fields' = None

\* the rest of one turn of the loops, once the engine has returned out
TurnEffect(sim, p, monitor, t, out) ==
  IF out.err # "none" THEN Raised(out.err, out.monitor)
  ELSE IF OutputSize(monitor, out) # WhereSize(p, monitor)
  THEN Raised("ValueError", out.monitor)
  ELSE /\ fields' = AddAt(fields, sim, p, monitor, t, out)
       /\ last_fields' = Some(out)
       /\ turn' = turn + 1
       /\ UNCHANGED <<ret, pc>>

\* one turn of the loops on the currents cur of self.currents: an error of
\* the property leaves the method, and the property is computed again by
\* the next read
TurnOn(sim, p, monitor, t, cur) ==
  LET bad == {i \in 1..Len(p.surfaces) : cur[p.surfaces[i].monitor.name].err # "none"}
      first == CHOOSE i \in bad : \A j \in bad : i <= j
  IN  IF bad # {}
      THEN /\ Raised(cur[p.surfaces[first].monitor.name].err, p.surfaces[first].monitor.name)
           /\ UNCHANGED surface_currents
      ELSE /\ surface_currents' =
                Some([cur EXCEPT ![p.surfaces[t.s].monitor.name] =
                                   CurrentsAfterWindow(monitor, @)])
           /\ TurnEffect(sim, p, monitor, t,
                         EngineOutput(sim, p, monitor, t,
                                      ApplyWindowToCurrents(monitor,
                                                            cur[p.surfaces[t.s].monitor.name])))

\* one turn of the loops of _project_fields_angular, _project_fields_cartesian
\* or _project_fields_kspace, self.currents being computed when first read
ProjectFieldsTurn ==
  /\ pc = "projecting"
  /\ turn <= NumTurns(The(projector), call.proj_monitor)
  /\ TurnOn(sim_data.simulation, The(projector), call.proj_monitor,
            TurnAt(The(projector), call.proj_monitor, turn),
            IF surface_currents = None
            THEN Currents(sim_data.simulation, The(projector), Len(The(projector).surfaces))
            ELSE The(surface_currents))
  /\ UNCHANGED <<call, sim_data, projector, past>>

\* the coordinates of the result (lines 636, 731, 801-806)
ResultCoords(p, monitor) ==
  CASE monitor.kind = "angle" ->
         [r |-> <<monitor.proj_distance>>, theta |-> monitor.theta, phi |-> monitor.phi,
          f |-> Frequencies(p)]
    [] monitor.kind = "cartesian" ->
         [x |-> CartesianPoints(monitor)[1], y |-> CartesianPoints(monitor)[2],
          z |-> CartesianPoints(monitor)[3], f |-> Frequencies(p)]
    [] monitor.kind = "kspace" ->
         [ux |-> monitor.ux, uy |-> monitor.uy, r |-> <<monitor.proj_distance>>,
          f |-> Frequencies(p)]

\* the end of the method: the data returned (lines 636-655, 731-738, 801-820)
ReturnData ==
  /\ pc = "projecting"
  /\ turn > NumTurns(The(projector), call.proj_monitor)
  /\ ret' = [err |-> "none", monitor |-> call.proj_monitor,
             projection_surfaces |-> The(projector).surfaces,
             medium |-> ProjectionMedium(The(projector), call.proj_monitor),
             is_2d_simulation |-> IF call.proj_monitor.kind = "angle"
                                  THEN Some(Is2dSimulation(sim_data.simulation)) ELSE None,
             coords |-> ResultCoords(The(projector), call.proj_monitor),
             fields |-> fields]
  /\ pc' = "ready"
  /\ fields' = <<>>
  /\ turn' = 0
  /\ last_fields' = None
  /\ UNCHANGED <<call, sim_data, projector, surface_currents>>

ProjectFieldsReturn == ReturnData /\ UNCHANGED past

Next == FromNearFieldMonitors \/ ProjectFields \/ ProjectFieldsTurn \/ ProjectFieldsReturn

Spec == Init /\ [][Next]_vars

(***************************************************************************)
(* Construction                                                            *)
(***************************************************************************)
\* the state right after a call of from_near_field_monitors
Constructing == call.op = "from_near_field_monitors"

\* C7: from_near_field_monitors raises SetupError and constructs no
\* projector whenever the number of monitors differs from the number of
\* normal directions; when the counts are equal it builds exactly one
\* surface per monitor, the i-th monitor paired with the i-th direction
C7_CountsAndPairing ==
  Constructing =>
    IF Len(call.near_monitors) # Len(call.normal_dirs)
    THEN ret.err = "SetupError" /\ projector = None
    ELSE /\ ret.err = "none"
         /\ projector # None
         /\ Len(The(projector).surfaces) = Len(call.near_monitors)
         /\ \A i \in 1..Len(call.near_monitors) :
              /\ The(projector).surfaces[i].monitor = call.near_monitors[i]
              /\ The(projector).surfaces[i].normal_dir = call.normal_dirs[i]

\* two monitors have been given one direction, and the call has raised
C7_WitnessMismatch ==
  /\ Constructing
  /\ Len(call.near_monitors) = 2 /\ Len(call.normal_dirs) = 1
  /\ ret.err = "SetupError" /\ projector = None

\* two monitors have been paired with two different directions
C7_Witness ==
  /\ Constructing
  /\ Len(call.near_monitors) = 2 /\ call.normal_dirs = <<"-", "+">>
  /\ ret.err = "none"
  /\ The(projector).surfaces[2] = [monitor |-> NearMonitor("side"), normal_dir |-> "+"]


(***************************************************************************)
(* The far-field engine                                                    *)
(***************************************************************************)
\* a projection is under way, or has returned its data
Projecting == call.op = "project_fields" /\ pc = "projecting"
Returned == call.op = "project_fields" /\ "fields" \in DOMAIN ret

\* the entries Er and Hr of a buffer with the axes (component, g1, g2, g3, f)
Radial(buffer) == {k \in DOMAIN buffer : k[1] \in {1, 4}}

\* C3: whenever the far-field approximation is enabled, Er and Hr of the
\* result are zero at every observation point and every frequency, for the
\* three kinds of grid and after any number of surfaces accumulated
C3_RadialZero ==
  /\ (Projecting /\ call.proj_monitor.far_field_approx) =>
       \A k \in Radial(fields) : fields[k] = CZero
  /\ (Returned /\ ret.monitor.far_field_approx) =>
       \A k \in Radial(ret.fields) : ret.fields[k] = CZero

\* a far-field projection of two surfaces onto the grid of the given kind
\* has returned transverse fields that are not zero
FarResult(kind) ==
  /\ Returned
  /\ ret.monitor.far_field_approx /\ ret.monitor.kind = kind
  /\ Len(ret.projection_surfaces) = 2
  /\ \E k \in DOMAIN ret.fields : k[1] = 2 /\ ret.fields[k] # CZero
  /\ \E k \in DOMAIN ret.fields : k[1] = 6 /\ ret.fields[k] # CZero

C3_Witness == FarResult("cartesian")
C3_WitnessAngle == FarResult("angle")
C3_WitnessKSpace == FarResult("kspace")

\* the turn of the loops that has just ended, its surface, the angles of its
\* engine call and the currents the call was given
LastTurn == TurnAt(The(projector), call.proj_monitor, turn - 1)
LastSurface == The(projector).surfaces[LastTurn.s]
LastFrequency == Frequencies(The(projector))[LastTurn.f]
LastAngles ==
  IF call.proj_monitor.kind = "angle" THEN <<call.proj_monitor.theta, call.proj_monitor.phi>>
  ELSE <<<<GridSph(call.proj_monitor, LastTurn.g).theta>>,
         <<GridSph(call.proj_monitor, LastTurn.g).phi>>>>
LastCurrents ==
  ApplyWindowToCurrents(call.proj_monitor, The(surface_currents)[LastSurface.monitor.name])

\* the far-field engine has just returned
FarReturned == Projecting /\ call.proj_monitor.far_field_approx /\ last_fields # None

\* Ntheta, Nphi, Ltheta and Lphi of the angle pair <<t, p>>: the projections
\* of the integrated J and M of the surface
RadiationVectors(sim, frequency, theta, phi, surface, currents, medium, t, p) ==
  LET integral == FarIntegrals(sim, surface, currents, SelF(currents, frequency),
                               FarPhases(currents,
                                         CMul(CNeg(CJ), Wavenumber(medium, frequency)),
                                         theta, phi),
                               theta, phi)
      idx_w == PopAxis(<<0, 1, 2>>, SurfaceAxis(surface))[1]
      idx_uv == PopAxis(<<0, 1, 2>>, SurfaceAxis(surface))[2]
      one(r) == r.val[CHOOSE x \in DOMAIN r.val : TRUE]
  IN  FarAt([c \in 1..4 |-> one(integral[<<c, t, p>>])], <<idx_uv[1], idx_uv[2], idx_w>>,
            Eta(medium, frequency), theta[t], phi[p])
LastVectors(t, p) ==
  RadiationVectors(sim_data.simulation, LastFrequency, LastAngles[1], LastAngles[2],
                   LastSurface, LastCurrents,
                   ProjectionMedium(The(projector), call.proj_monitor), t, p)

\* the relations of C4 between the six values out of one angle pair and the
\* radiation vectors v of the pair
FarRelations(out, v, eta) ==
  /\ out[2] = CNeg(CAdd(v.L[2], CMul(eta, v.N[1])))
  /\ out[3] = CSub(v.L[1], CMul(eta, v.N[2]))
  /\ out[5] = CNeg(CDiv(out[3], eta))
  /\ out[6] = CDiv(out[2], eta)
  /\ CAdd(CMul(eta, out[5]), out[3]) = CZero
  /\ CSub(CMul(eta, out[6]), out[2]) = CZero

\* C4: for every angle pair and every surface, the output of the far-field
\* engine satisfies Etheta = -(Lphi + eta*Ntheta), Ephi = Ltheta - eta*Nphi,
\* Htheta = -Ephi/eta and Hphi = Etheta/eta, hence eta*Htheta + Ephi = 0 and
\* eta*Hphi - Etheta = 0
C4_FarFieldRelations ==
  FarReturned =>
    \A t \in 1..Len(LastAngles[1]), p \in 1..Len(LastAngles[2]) :
      FarRelations([c \in 1..6 |-> The(last_fields).val[<<c, t, p>>]], LastVectors(t, p),
                   Eta(ProjectionMedium(The(projector), call.proj_monitor), LastFrequency))

\* the engine has returned for an angle pair whose four radiation vectors
\* are not zero
C4_Witness ==
  /\ FarReturned
  /\ \E t \in 1..Len(LastAngles[1]), p \in 1..Len(LastAngles[2]) :
       /\ \A i \in 1..2 : LastVectors(t, p).N[i] # CZero /\ LastVectors(t, p).L[i] # CZero
       /\ The(last_fields).val[<<2, t, p>>] # CZero
       /\ The(last_fields).val[<<3, t, p>>] # CZero

(***************************************************************************)
(* Opposite normal directions                                              *)
(***************************************************************************)
\* the surface with the other normal direction
Flipped(surface) == [surface EXCEPT !.normal_dir = IF @ = "+" THEN "-" ELSE "+"]

\* the currents of one surface by itself, as lines 177-185 compute them
OwnCurrents(sim, p, monitor, surface) ==
  ApplyWindowToCurrents(monitor,
                        ShiftCurrents(ComputeSurfaceCurrents(sim, surface, Medium(p),
                                                             p.pts_per_wavelength),
                                      p.origin))

\* the engine call of the turn that has just ended, had the one surface of
\* the projector the other normal direction
FlippedOutput ==
  EngineOutput(sim_data.simulation,
               [The(projector) EXCEPT !.surfaces = <<Flipped(LastSurface)>>],
               call.proj_monitor, LastTurn,
               OwnCurrents(sim_data.simulation, The(projector), call.proj_monitor,
                           Flipped(LastSurface)))

\* an engine has just returned to a projector of one surface
OneSurfaceReturned ==
  Projecting /\ last_fields # None /\ Len(The(projector).surfaces) = 1

\* the first half of C2, on the engines alone: the outputs for a surface and
\* for the surface with the other normal direction are negations of each
\* other, component by component
C2_EngineNegation ==
  OneSurfaceReturned =>
    /\ FlippedOutput.err = "none"
    /\ DOMAIN FlippedOutput.val = DOMAIN The(last_fields).val
    /\ \A k \in DOMAIN FlippedOutput.val :
         FlippedOutput.val[k] = CNeg(The(last_fields).val[k])

\* the projector holds a monitor twice, with the two normal directions
HoldsBoth(surfaces) ==
  /\ Len(surfaces) = 2
  /\ surfaces[1].monitor = surfaces[2].monitor
  /\ surfaces[1].normal_dir # surfaces[2].normal_dir

\* C2: two surfaces that differ only in normal direction give contributions
\* that are negations of each other in every component, so a projector
\* holding both surfaces yields a zero total field
C2_OppositeSurfacesCancel ==
  (Returned /\ HoldsBoth(ret.projection_surfaces)) =>
    \A k \in DOMAIN ret.fields : ret.fields[k] = CZero

\* what the projector returns instead: twice the field of the surface
\* stored last under the monitor's name
C2_TwiceTheLast ==
  (Projecting /\ last_fields # None /\ HoldsBoth(The(projector).surfaces)) =>
    The(surface_currents)[LastSurface.monitor.name]
      = OwnCurrents(sim_data.simulation, The(projector), call.proj_monitor,
                    The(projector).surfaces[2])

\* the currents of a surface from its own monitor data and its own normal
\* direction, relative to the origin of the projector (lines 179-185)
CurrentsOfSurface(p, surface) ==
  ShiftCurrents(ComputeSurfaceCurrents(sim_data.simulation, surface, Medium(p),
                                       p.pts_per_wavelength),
                p.origin)

\* an engine has just returned for the surface LastSurface
SurfaceIntegrated == Projecting /\ last_fields # None

\* the surfaces of the projector hold monitors of different names
DistinctNames(surfaces) ==
  \A i, j \in DOMAIN surfaces : i # j => surfaces[i].monitor.name # surfaces[j].monitor.name

\* C23: the cached currents hold one entry for each surface of the
\* projector, and each surface is integrated with the currents of its own
\* monitor data and its own normal direction, also when two surfaces hold
\* monitors of the same name
C23_OwnCurrentsPerSurface ==
  SurfaceIntegrated =>
    /\ Cardinality(DOMAIN The(surface_currents)) = Len(The(projector).surfaces)
    /\ The(surface_currents)[LastSurface.monitor.name]
         = CurrentsOfSurface(The(projector), LastSurface)

\* the same for the projectors whose monitors have different names
C23_OwnCurrentsPerName ==
  (SurfaceIntegrated /\ DistinctNames(The(projector).surfaces)) =>
    /\ Cardinality(DOMAIN The(surface_currents)) = Len(The(projector).surfaces)
    /\ The(surface_currents)[LastSurface.monitor.name]
         = CurrentsOfSurface(The(projector), LastSurface)

\* what a projector holding a monitor with both normal directions does: one
\* entry, and the first surface integrated with the currents of the second
C23_LastOfTheName ==
  (SurfaceIntegrated /\ HoldsBoth(The(projector).surfaces)) =>
    /\ Cardinality(DOMAIN The(surface_currents)) = 1
    /\ The(surface_currents)[LastSurface.monitor.name]
         = CurrentsOfSurface(The(projector), The(projector).surfaces[2])
    /\ CurrentsOfSurface(The(projector), The(projector).surfaces[1])
         # CurrentsOfSurface(The(projector), The(projector).surfaces[2])

\* the first of two surfaces of one monitor with opposite normal directions
\* has been integrated
C23_ReachedBoth ==
  /\ SurfaceIntegrated
  /\ HoldsBoth(The(projector).surfaces)
  /\ LastSurface = The(projector).surfaces[1]

(***************************************************************************)
(* Frequencies                                                             *)
(***************************************************************************)
\* the values of a sequence
Range(seq) == {seq[i] : i \in DOMAIN seq}

\* the names of the monitors whose data lack a frequency of the projection
Lacking(p) ==
  {p.surfaces[i].monitor.name : i \in
     {i \in DOMAIN p.surfaces :
        ~(Range(Frequencies(p)) \subseteq Range(p.surfaces[i].monitor.freqs))}}

\* a call of project_fields has ended, with data or with an exception
Ended == call.op = "project_fields" /\ pc = "ready"

\* C6: if a frequency requested for projection is absent from a surface's
\* stored frequency axis, the projection fails with SetupError naming that
\* surface's monitor and returns no result, whichever surface it is
C6_AbsentFrequencyRaises ==
  (Ended /\ Lacking(The(projector)) # {}) =>
    /\ ret.err = "SetupError"
    /\ ret.monitor \in Lacking(The(projector))

\* the claim on the far-field engine alone, where it holds
C6_FarFieldRaises ==
  (Ended /\ Lacking(The(projector)) # {} /\ call.proj_monitor.far_field_approx) =>
    /\ ret.err = "SetupError"
    /\ ret.monitor \in Lacking(The(projector))

\* the exact engine returns data although a frequency is absent
C6_ExactReturns ==
  (Ended /\ Lacking(The(projector)) # {} /\ ~call.proj_monitor.far_field_approx) =>
    ret.err = "none" /\ "fields" \in DOMAIN ret

(***************************************************************************)
(* Dimensionality                                                          *)
(***************************************************************************)
\* the axes along which the simulation has size zero
ZeroDims(sim) == {d \in Axes : sim.size[d + 1] = 0}

\* C8: a simulation whose size has more than one zero-size axis is rejected
\* with a configuration error when fields are projected, rather than being
\* projected as a 3D simulation
C8_AmbiguousRejected ==
  (Ended /\ Cardinality(ZeroDims(sim_data.simulation)) > 1) =>
    ret.err = "SetupError" /\ "fields" \notin DOMAIN ret

\* what the projector does instead: with the monitors' frequencies all
\* stored, the projection of such a simulation returns data, and the
\* angular data say that the simulation is not 2D
C8_ProjectedAs3D ==
  (Ended /\ Cardinality(ZeroDims(sim_data.simulation)) > 1
         /\ Lacking(The(projector)) = {} /\ ret.err # "ValueError") =>
    /\ ret.err = "none" /\ "fields" \in DOMAIN ret
    /\ ret.is_2d_simulation \in {None, Some(FALSE)}

\* the test of lines 433-435 is never met: the simulation is 2D only with
\* one zero-size axis
C8_OneZeroDimWhen2D ==
  Is2dSimulation(sim_data.simulation) => Cardinality(ZeroDims(sim_data.simulation)) = 1

(***************************************************************************)
(* The order of the surfaces                                               *)
(***************************************************************************)
\* what a call of project_fields gives: the exception, or the buffer
Outcome(r) ==
  IF "fields" \in DOMAIN r THEN [err |-> "none", fields |-> r.fields] ELSE [err |-> r.err]

\* the projection from turn n on, the buffer holding the turns before n, and
\* its step once the engine has returned out
RECURSIVE ProjectionFrom(_, _, _, _, _, _)
ProjectionStep(sim, p, monitor, cur, buffer, n, out) ==
  CASE Computed(out) ->
    IF out.err # "none" THEN [err |-> out.err]
    ELSE IF OutputSize(monitor, out) # WhereSize(p, monitor) THEN [err |-> "ValueError"]
    ELSE ProjectionFrom(sim, p, monitor, cur,
                        AddAt(buffer, sim, p, monitor, TurnAt(p, monitor, n), out), n + 1)
ProjectionFrom(sim, p, monitor, cur, buffer, n) ==
  CASE Computed(buffer) ->
    IF n > NumTurns(p, monitor) THEN [err |-> "none", fields |-> buffer]
    ELSE ProjectionStep(sim, p, monitor, cur, buffer, n,
                        EngineOutput(sim, p, monitor, TurnAt(p, monitor, n),
                                     ApplyWindowToCurrents(
                                       monitor,
                                       cur[p.surfaces[TurnAt(p, monitor, n).s].monitor.name])))

\* the outcome of project_fields(monitor) on the projector p
ProjectionOn(sim, p, monitor, cur) ==
  IF \E i \in 1..Len(p.surfaces) : cur[p.surfaces[i].monitor.name].err # "none"
  THEN [err |-> cur[p.surfaces[CHOOSE i \in 1..Len(p.surfaces) :
                                   cur[p.surfaces[i].monitor.name].err # "none"].monitor.name].err]
  ELSE ProjectionFrom(sim, p, monitor, cur, ZeroFields(p, monitor), 1)
Projection(sim, p, monitor) == ProjectionOn(sim, p, monitor, Currents(sim, p, Len(p.surfaces)))

\* the projector with its surfaces in the opposite order
Permuted(p) ==
  [p EXCEPT !.surfaces = [i \in 1..Len(p.surfaces) |-> p.surfaces[Len(p.surfaces) + 1 - i]]]

\* a projection over two surfaces has ended
EndedOnTwo == Ended /\ Len(The(projector).surfaces) = 2

\* the model's own account of the method agrees with its steps
C5_StepsAgree ==
  EndedOnTwo =>
    Outcome(ret) = Projection(sim_data.simulation, The(projector), call.proj_monitor)

\* C5: the buffer starts as all zeros, a projection over several surfaces is
\* the sum of the contributions of the surfaces, and permuting the surfaces
\* of the projector does not change the result, for every kind of grid and
\* both engines
C5_OrderOfSurfaces ==
  /\ (Projecting /\ turn = 1) => \A k \in DOMAIN fields : fields[k] = CZero
  /\ EndedOnTwo =>
       Outcome(ret)
         = Projection(sim_data.simulation, Permuted(The(projector)), call.proj_monitor)

\* the surfaces are of two monitors, whose data hold the same frequencies
Compatible(surfaces) ==
  /\ surfaces[1].monitor.name # surfaces[2].monitor.name
  /\ surfaces[1].monitor.freqs = surfaces[2].monitor.freqs

\* the claim, for two monitors that store the same frequencies
C5_OrderOfCompatible ==
  (EndedOnTwo /\ Compatible(The(projector).surfaces)) =>
    Outcome(ret) = Projection(sim_data.simulation, Permuted(The(projector)), call.proj_monitor)

\* a projection over two such surfaces has returned data that are not zero
C5_CompatibleReturned ==
  /\ EndedOnTwo /\ Compatible(The(projector).surfaces)
  /\ Returned
  /\ \E k \in DOMAIN ret.fields : ret.fields[k] # CZero

\* the claim, for one monitor held with its two normal directions
C5_OrderOfOpposite ==
  (EndedOnTwo /\ HoldsBoth(The(projector).surfaces)) =>
    Outcome(ret) = Projection(sim_data.simulation, Permuted(The(projector)), call.proj_monitor)

(***************************************************************************)
(* The provenance of the result                                            *)
(***************************************************************************)
\* C17: for each of the three kinds of observation grid the result records
\* the surfaces used, the medium of the projection, and a dimensionality
\* flag equal to the projector's is_2d_simulation
C17_ProvenanceRecorded ==
  Returned =>
    /\ ret.projection_surfaces = The(projector).surfaces
    /\ ret.medium = ProjectionMedium(The(projector), call.proj_monitor)
    /\ ret.is_2d_simulation = Some(Is2dSimulation(sim_data.simulation))

\* the surfaces and the medium are recorded for every kind of grid
C17_SurfacesAndMedium ==
  Returned =>
    /\ ret.monitor = call.proj_monitor
    /\ ret.projection_surfaces = The(projector).surfaces
    /\ ret.medium = ProjectionMedium(The(projector), call.proj_monitor)

\* the flag is given to the result on an angular grid, and to no other
C17_FlagOfAngularOnly ==
  Returned =>
    IF call.proj_monitor.kind = "angle"
    THEN ret.is_2d_simulation = Some(Is2dSimulation(sim_data.simulation))
    ELSE ret.is_2d_simulation = None

\* a projection of a simulation in two dimensions has returned on a
\* Cartesian grid, and one on a grid in k-space
C17_ReturnedCartesian2D ==
  /\ Returned /\ Is2dSimulation(sim_data.simulation)
  /\ call.proj_monitor.kind = "cartesian"
C17_ReturnedKSpace2D ==
  /\ Returned /\ Is2dSimulation(sim_data.simulation)
  /\ call.proj_monitor.kind = "kspace"
C17_ReturnedAngle2D ==
  /\ Returned /\ Is2dSimulation(sim_data.simulation)
  /\ call.proj_monitor.kind = "angle"

(***************************************************************************)
(* apply_window_to_currents on the currents of one surface                 *)
(***************************************************************************)
MaxTimes == 2

\* the currents windowed: those of a monitor normal to axis a with the
\* in-plane sizes w, on the grid lines of the simulation
WindowCurrents(a, w, f) ==
  ComputeSurfaceCurrents(Simulation({}),
                         [monitor |-> ResampleMonitor(a, w, 0, f), normal_dir |-> "+"],
                         Vacuum, None)

\* the projection monitors that window: flat, a line, a point or a box, with
\* the window's fraction 0 or 1 along each in-plane axis
WindowMonitors ==
  {[AngleMonitor(TRUE) EXCEPT !.size = size, !.window_size = window_size] :
     size \in {<<2, 2, 0>>, <<0, 2, 2>>, <<0, 0, 0>>, <<2, 2, 2>>},
     window_size \in {<<0, 0>>, <<1, 0>>, <<0, 1>>, <<1, 1>>}}

InitWindow == call = NoCall /\ ret = NoCall /\ NoSession

\* apply_window_to_currents(proj_monitor, currents)
CallApplyWindowToCurrents ==
  /\ call = NoCall
  /\ UNCHANGED session
  /\ \E a \in Axes, w \in {<<4, 4>>, <<12, 6>>}, f \in 1..MaxFreq,
        proj_monitor \in WindowMonitors :
       \E currents \in {WindowCurrents(a, w, f)} :
         /\ call' = [op |-> "apply_window_to_currents", proj_monitor |-> proj_monitor,
                     currents |-> currents, original |-> currents, times |-> 1]
         /\ ret' = ApplyWindowToCurrents(proj_monitor, currents)

\* apply_window_to_currents(proj_monitor, windowed) on the currents that the
\* call before has returned
CallApplyWindowAgain ==
  /\ call.op = "apply_window_to_currents"
  /\ call.times < MaxTimes
  /\ UNCHANGED session
  /\ call' = [call EXCEPT !.currents = ret, !.times = @ + 1]
  /\ ret' = ApplyWindowToCurrents(call.proj_monitor, ret)

NextWindow == CallApplyWindowToCurrents \/ CallApplyWindowAgain

SpecWindow == InitWindow /\ [][NextWindow]_vars

\* the call has returned after the given number of applications
WindowApplied(times) == call.op = "apply_window_to_currents" /\ call.times = times

\* the monitor of the call windows nothing
PassesThrough ==
  \/ call.proj_monitor.window_size = <<0, 0>>
  \/ \A k \in 1..3 : call.proj_monitor.size[k] # 0

\* the window value of axis dim (0..2) at the i-th point of the axis
WindowAt(dim, i) ==
  LET pts == <<call.original.x, call.original.y, call.original.z>>
  IN  WindowFunction(pts[dim + 1],
                     WindowParameters(call.proj_monitor,
                                      <<[k \in 1..3 |-> pts[k][1]],
                                        [k \in 1..3 |-> pts[k][Len(pts[k])]]>>),
                     dim)[i]

\* the product of the window values of the three axes at the sample t
WindowProduct(t) == CMul(CMul(WindowAt(0, t[1]), WindowAt(1, t[2])), WindowAt(2, t[3]))

\* the coordinates of a dataset
Coordinates(ds) == <<ds.x, ds.y, ds.z, ds.f>>

\* C13: apply_window_to_currents returns the currents unchanged, without
\* error, when the window size is zero in both directions and when the
\* monitor has no zero-size dimension; in every other case each value is
\* multiplied by the product of the window values of the axes at its
\* coordinates
C13_WindowOrPassThrough ==
  WindowApplied(1) =>
    IF PassesThrough THEN ret = call.currents
    ELSE /\ ret.err = "none"
         /\ Coordinates(ret) = Coordinates(call.currents)
         /\ DOMAIN ret.data = DOMAIN call.currents.data
         /\ \A c \in DOMAIN ret.data :
              /\ DOMAIN ret.data[c] = DOMAIN call.currents.data[c]
              /\ \A t \in DOMAIN ret.data[c] :
                   ret.data[c][t] = CMul(call.currents.data[c][t], WindowProduct(t))

\* a window has changed some values and left others as they were
C13_Witness ==
  /\ WindowApplied(1) /\ ~PassesThrough
  /\ \E c \in DOMAIN ret.data : \E t, u \in DOMAIN ret.data[c] :
       /\ ret.data[c][t] # call.currents.data[c][t] /\ WindowProduct(t) # COne
       /\ ret.data[c][u] = call.currents.data[c][u] /\ ret.data[c][u] # CZero

\* the two cases that pass through: a window asked for on a box, and no
\* window on a flat monitor
C13_WitnessBox ==
  /\ WindowApplied(1)
  /\ call.proj_monitor.window_size = <<1, 1>> /\ call.proj_monitor.size = <<2, 2, 2>>
  /\ ret = call.currents
C13_WitnessNoWindow ==
  /\ WindowApplied(1)
  /\ call.proj_monitor.window_size = <<0, 0>> /\ call.proj_monitor.size = <<2, 2, 0>>
  /\ ret = call.currents

\* C14: applying apply_window_to_currents twice with the same monitor gives,
\* at every sample point and for every component, the original current
\* multiplied by the square of the window value at that point
C14_TwiceIsSquare ==
  (WindowApplied(2) /\ ~PassesThrough) =>
    /\ ret.err = "none"
    /\ Coordinates(ret) = Coordinates(call.original)
    /\ \A c \in DOMAIN call.original.data :
         \A t \in DOMAIN call.original.data[c] :
           ret.data[c][t] = CMul(call.original.data[c][t],
                                 CMul(WindowProduct(t), WindowProduct(t)))

\* a window value that is neither 0 nor 1 has been applied twice to a
\* current that is not zero
C14_Witness ==
  /\ WindowApplied(2) /\ ~PassesThrough
  /\ \E c \in DOMAIN ret.data : \E t \in DOMAIN ret.data[c] :
       /\ WindowProduct(t) \notin {CZero, COne}
       /\ call.original.data[c][t] # CZero
       /\ ret.data[c][t] # call.currents.data[c][t]

(***************************************************************************)
(* The local origin and the cached currents                                *)
(***************************************************************************)
\* the monitors of the projector: normal to axis a and moved by c along the
\* first in-plane axis
OriginMonitor(name, a, c) == [ResampleMonitor(a, <<4, 4>>, c, 1) EXCEPT !.name = name]
OriginMonitors(name) == {OriginMonitor(name, a, c) : a \in Axes, c \in {0, 2}}

InitCurrents == call = NoCall /\ ret = NoCall /\ NoSession

\* the projector built with the given origin, and its property currents
\* read for the first time
CallCurrents ==
  /\ call = NoCall
  /\ UNCHANGED session
  /\ \E n \in 1..MaxSurfaces, first \in OriginMonitors("first"),
        second \in OriginMonitors("second"),
        origin \in {None, Some(<<CInt(1), CZero, CInt(-1)>>)},
        pts_per_wavelength \in {None, Some(1)} :
       \E surfaces \in {SubSeq(<<[monitor |-> first, normal_dir |-> "+"],
                                  [monitor |-> second, normal_dir |-> "-"]>>, 1, n)} :
         \E p \in {[surfaces |-> surfaces, pts_per_wavelength |-> pts_per_wavelength,
                      origin |-> SetOrigin(origin, surfaces)]} :
           /\ call' = [op |-> "currents", sim |-> Simulation({}), projector |-> p,
                       origin |-> origin]
           /\ ret' = Currents(Simulation({}), p, Len(surfaces))

NextCurrents == CallCurrents

SpecCurrents == InitCurrents /\ [][NextCurrents]_vars

\* the property has been read
CurrentsRead == call.op = "currents"

\* the arithmetic mean of the k-th coordinate of the centers of the monitors
MeanCenter(surfaces, k) ==
  CDiv(CSum([i \in 1..Len(surfaces) |-> CInt(surfaces[i].monitor.center[k])], Len(surfaces)),
       CInt(Len(surfaces)))

\* the origin that C15 requires of the call
RequiredOrigin ==
  IF call.origin # None THEN The(call.origin)
  ELSE [k \in 1..3 |-> MeanCenter(call.projector.surfaces, k)]

\* the currents of a surface before the shift
Unshifted(surface) ==
  ComputeSurfaceCurrents(call.sim, surface, Vacuum, call.projector.pts_per_wavelength)

\* pts moved by -d
ShiftedBy(pts, d) == [i \in 1..Len(pts) |-> CSub(pts[i], d)]

\* C15: the local origin is the origin supplied when one is given and
\* otherwise the mean of the centers of all surface monitors; x, y and z of
\* the cached currents of every surface are shifted by this one origin
C15_OneOrigin ==
  CurrentsRead =>
    /\ call.projector.origin = RequiredOrigin
    /\ \A i \in 1..Len(call.projector.surfaces) :
         LET surface == call.projector.surfaces[i]
             cached == ret[surface.monitor.name]
         IN  /\ cached.err = "none"
             /\ cached.x = ShiftedBy(Unshifted(surface).x, RequiredOrigin[1])
             /\ cached.y = ShiftedBy(Unshifted(surface).y, RequiredOrigin[2])
             /\ cached.z = ShiftedBy(Unshifted(surface).z, RequiredOrigin[3])
             /\ cached.data = Unshifted(surface).data

\* no origin was given, the two monitors have different centers, and their
\* currents are cached relative to a point that is the center of neither
C15_Witness ==
  /\ CurrentsRead
  /\ call.origin = None
  /\ Len(call.projector.surfaces) = 2
  /\ \A i \in 1..2 : \E k \in 1..3 :
       CInt(call.projector.surfaces[i].monitor.center[k]) # call.projector.origin[k]
  /\ ret["first"].x # Unshifted(call.projector.surfaces[1]).x
       \/ ret["first"].y # Unshifted(call.projector.surfaces[1]).y
       \/ ret["first"].z # Unshifted(call.projector.surfaces[1]).z

\* an origin was given, and the currents are cached relative to it
C15_WitnessGiven ==
  /\ CurrentsRead
  /\ call.origin # None
  /\ call.projector.origin = <<CInt(1), CZero, CInt(-1)>>
  /\ ret["first"].x = ShiftedBy(Unshifted(call.projector.surfaces[1]).x, CInt(1))
  /\ ret["first"].x # Unshifted(call.projector.surfaces[1]).x


(***************************************************************************)
(* One projector used for several projections, and its updated copies      *)
(***************************************************************************)
\* the copies made of a projector
MaxCopies == 1

\* the cache of the cached properties of a copy: kept from the original
CacheKept(cache) == cache

\* the cache of the cached properties of a copy: a copy is a new object,
\* validated again, and starts with nothing cached
CacheOfCopy(cache) == None

\* the projectors of the session: top and front of the simulation in three
\* dimensions, about each origin asked for
ReuseProjector(origin) ==
  LET surfaces == Surfaces(<<NearMonitor("top"), NearMonitor("front")>>, <<"+", "-">>)
  IN  [surfaces |-> surfaces, pts_per_wavelength |-> None,
       origin |-> SetOrigin(origin, surfaces)]

InitReuse ==
  /\ call = NoCall /\ ret = NoCall
  /\ sim_data = SimulationData(<<4, 4, 4>>)
  /\ projector \in {Some(ReuseProjector(origin)) : origin \in Origins}
  /\ surface_currents = None
  /\ pc = "ready" /\ fields = <<>> /\ turn = 0 /\ last_fields = None
  /\ past = NoPast

\* the end of project_fields, the data returned being kept by the caller
RecordedReturn ==
  /\ ReturnData
  /\ past' = [past EXCEPT !.results =
                Append(@, [projector |-> The(projector), monitor |-> call.proj_monitor,
                           outcome |-> Outcome(ret')])]

\* the projector copied with another origin or another pts_per_wavelength:
\* the original stays with the caller, together with what it has cached
UpdatedCopy ==
  /\ pc = "ready"
  /\ Len(past.originals) < MaxCopies
  /\ \E update \in [origin : Origins] \cup [pts_per_wavelength : {Some(1)}] :
       \E copy \in {IF "origin" \in DOMAIN update
                    THEN [The(projector) EXCEPT
                            !.origin = SetOrigin(update.origin, The(projector).surfaces)]
                    ELSE [The(projector) EXCEPT
                            !.pts_per_wavelength = update.pts_per_wavelength]} :
         /\ copy # The(projector)
         /\ call' = [op |-> "updated_copy", update |-> update]
         /\ projector' = Some(copy)
  /\ ret' = [err |-> "none"]
  /\ surface_currents' = CacheOfCopy(surface_currents)
  /\ past' = [past EXCEPT !.originals =
                Append(@, [projector |-> The(projector), currents |-> surface_currents])]
  /\ UNCHANGED <<sim_data, pc, fields, turn, last_fields>>

NextReuse == ProjectFields \/ ProjectFieldsTurn \/ RecordedReturn \/ UpdatedCopy

SpecReuse == InitReuse /\ [][NextReuse]_vars

\* the currents of the configuration p of the projector
CurrentsOf(p) == Currents(sim_data.simulation, p, Len(p.surfaces))

\* what a projector has cached is what its own configuration gives
CacheConsistent ==
  /\ surface_currents # None => The(surface_currents) = CurrentsOf(The(projector))
  /\ \A i \in 1..Len(past.originals) :
       past.originals[i].currents # None =>
         The(past.originals[i].currents) = CurrentsOf(past.originals[i].projector)

\* the currents of one projector are computed when nothing is cached and
\* never again; a copy leaves the original and its cache as they were
CacheStep ==
  /\ (projector' = projector /\ surface_currents # None) =>
       surface_currents' = surface_currents
  /\ projector' # projector =>
       /\ Len(past'.originals) = Len(past.originals) + 1
       /\ past'.originals[Len(past'.originals)] =
            [projector |-> The(projector), currents |-> surface_currents]
  /\ \A i \in 1..Len(past.originals) :
       /\ i <= Len(past'.originals)
       /\ past'.originals[i] = past.originals[i]

\* C16: for one projector value the surface currents are computed at most
\* once, however many projections are requested; changing pts_per_wavelength
\* or origin yields a new projector whose currents are computed again from
\* the new configuration, the original projector and its cached currents
\* staying unchanged, so that cached currents always correspond to the
\* configuration of the projector that holds them
C16_CacheFollowsConfiguration == []CacheConsistent /\ [][CacheStep]_vars

\* the original had computed its currents, its copy about another origin
\* has computed other currents, and two projections were made
C16_Witness ==
  /\ Len(past.originals) = 1
  /\ past.originals[1].currents # None
  /\ surface_currents # None
  /\ surface_currents # past.originals[1].currents
  /\ The(projector).origin # past.originals[1].projector.origin
  /\ Len(past.results) = 2

\* the copy has another pts_per_wavelength and has computed its currents
C16_WitnessResampled ==
  /\ Len(past.originals) = 1
  /\ past.originals[1].currents # None
  /\ surface_currents # None
  /\ The(projector).pts_per_wavelength = Some(1)


\* the calls of project_fields that have returned, and those of them made
\* on the projector p with the projection monitor m
Calls == 1..Len(past.results)
CallsOf(p, m) == {i \in Calls : past.results[i].projector = p /\ past.results[i].monitor = m}

\* C18: project_fields is deterministic and free of state kept from one call
\* to the next: however many calls were made before, and in whatever order,
\* a call with the same projector and the same projection monitor returns
\* the same result, the projection of the currents of the projector
\* accumulated into a buffer of its own that starts from zeros
C18_SameCallSameResult ==
  /\ \A i \in Calls : \A j \in CallsOf(past.results[i].projector, past.results[i].monitor) :
       past.results[j].outcome = past.results[i].outcome
  /\ (Returned /\ past.results # <<>>) =>
       /\ past.results[Len(past.results)].outcome = Outcome(ret)
       /\ Outcome(ret) = Projection(sim_data.simulation, The(projector), call.proj_monitor)

\* the same projector was asked twice for the same monitor, and both calls
\* returned the same fields, which are not all zero
C18_Witness ==
  /\ Returned
  /\ Len(past.results) = 2
  /\ 2 \in CallsOf(past.results[1].projector, past.results[1].monitor)
  /\ past.results[1].outcome.err = "none"
  /\ past.results[2].outcome = past.results[1].outcome
  /\ \E k \in DOMAIN past.results[1].outcome.fields :
       past.results[1].outcome.fields[k] # CZero

\* two calls with different monitors, the second after the cache was filled
C18_WitnessOtherMonitor ==
  /\ Returned
  /\ Len(past.results) = 2
  /\ past.results[1].monitor # past.results[2].monitor
  /\ past.results[1].projector = past.results[2].projector
  /\ \E k \in DOMAIN past.results[2].outcome.fields :
       past.results[2].outcome.fields[k] # CZero


(***************************************************************************)
(* Projections onto windowed monitors                                      *)
(***************************************************************************)
\* the far-field monitors of the three kinds, flat along z, with the window
\* over the whole of the surface and without a window
WindowedMonitors ==
  {[m EXCEPT !.size = <<2, 2, 0>>, !.window_size = window_size] :
     m \in {AngleMonitor(TRUE), CartesianMonitor(TRUE), KSpaceMonitor(TRUE)},
     window_size \in {<<1, 1>>, <<0, 0>>}}

\* project_fields with a windowed monitor (lines 556-576, 600, 680, 760)
ProjectFieldsWindowed ==
  /\ pc = "ready"
  /\ Len(past.results) < MaxCalls
  /\ \E monitor \in WindowedMonitors :
       /\ call' = [op |-> "project_fields", proj_monitor |-> monitor]
       /\ fields' = ZeroFields(The(projector), monitor)
  /\ ret' = NoCall
  /\ turn' = 1
  /\ pc' = "projecting"
  /\ last_fields' = None
  /\ UNCHANGED <<sim_data, projector, surface_currents, past>>

NextWindowed == ProjectFieldsWindowed \/ ProjectFieldsTurn \/ RecordedReturn

SpecWindowed == InitReuse /\ [][NextWindowed]_vars

\* the monitor of the call changes the currents stored for surface i
Windows(i) ==
  LET cached == The(surface_currents)[The(projector).surfaces[i].monitor.name]
  IN  ApplyWindowToCurrents(call.proj_monitor, cached) # cached

\* C24: apply_window_to_currents never modifies the dataset passed to it:
\* after any sequence of project_fields calls with any windowed monitors the
\* cached currents of the projector are those first computed, no window
\* being applied cumulatively
C24_CacheNeverWindowed ==
  surface_currents # None => The(surface_currents) = CurrentsOf(The(projector))

\* a second call with a windowed monitor is at work, and the window changes
\* the currents of the surface just integrated, which are non-zero
C24_Witness ==
  /\ SurfaceIntegrated
  /\ Len(past.results) = 1
  /\ past.results[1].monitor.window_size = <<1, 1>>
  /\ call.proj_monitor.window_size = <<1, 1>>
  /\ \E i \in 1..Len(The(projector).surfaces) :
       /\ LastSurface = The(projector).surfaces[i]
       /\ Windows(i)

(***************************************************************************)
(* The iterations of the loops taken in any order                          *)
(***************************************************************************)
\* the observation grids: two angle pairs, two points of a Cartesian plane
\* through the origin, two points of k-space
AnyOrderMonitors ==
  {AngleMonitor(far) : far \in BOOLEAN}
    \cup {[CartesianMonitor(far) EXCEPT !.proj_distance = 0, !.x = <<-ProjDistance, ProjDistance>>] :
            far \in BOOLEAN}
    \cup {KSpaceMonitor(far) : far \in BOOLEAN}

\* project_fields up to its loops (lines 556-576, 600, 680, 760), no
\* iteration being done
ProjectFieldsAnyOrder ==
  /\ pc = "ready"
  /\ call = NoCall
  /\ \E monitor \in AnyOrderMonitors :
       /\ Fits(The(projector), monitor)
       /\ call' = [op |-> "project_fields", proj_monitor |-> monitor, done |-> {}]
       /\ fields' = ZeroFields(The(projector), monitor)
  /\ ret' = NoCall
  /\ turn' = 1
  /\ pc' = "projecting"
  /\ last_fields' = None
  /\ UNCHANGED <<sim_data, projector, surface_currents, past>>

\* one iteration of the loops that is not done yet, whichever
TurnAnyOrder ==
  /\ pc = "projecting"
  /\ \E n \in 1..NumTurns(The(projector), call.proj_monitor) \ call.done :
       /\ call' = [call EXCEPT !.done = @ \cup {n}]
       /\ TurnOn(sim_data.simulation, The(projector), call.proj_monitor,
                 TurnAt(The(projector), call.proj_monitor, n),
                 IF surface_currents = None
                 THEN Currents(sim_data.simulation, The(projector), Len(The(projector).surfaces))
                 ELSE The(surface_currents))
  /\ UNCHANGED <<sim_data, projector, past>>

NextAnyOrder == ProjectFieldsAnyOrder \/ TurnAnyOrder \/ ProjectFieldsReturn

SpecAnyOrder == InitReuse /\ [][NextAnyOrder]_vars

\* the cells of the buffer that belong to the point and the frequency of the
\* turn t
OwnCells(t) ==
  {k \in DOMAIN fields : (t.g = <<>> \/ SubSeq(k, 2, 4) = t.g) /\ (t.f = 0 \/ k[5] = t.f)}

\* the iterations of the call, and the call with all of them done
Iterations == 1..NumTurns(The(projector), call.proj_monitor)
AllDone == Projecting /\ call.done = Iterations

\* the buffer after all iterations, in whatever order, is that of the loops
\* in their own order
SameBuffer ==
  AllDone =>
    [err |-> "none", fields |-> fields]
      = Projection(sim_data.simulation, The(projector), call.proj_monitor)

\* an iteration leaves every cell of another point or frequency as it was
OwnCellsOnly ==
  (Projecting /\ Projecting' /\ call'.done # call.done) =>
    \A n \in call'.done \ call.done : \A k \in DOMAIN fields :
      k \notin OwnCells(TurnAt(The(projector), call.proj_monitor, n)) => fields'[k] = fields[k]

\* C25: the contributions of different observation points (and, in the
\* far-field path, of different frequencies) are independent: an iteration
\* writes only the cells of its own point and frequency, and the iterations
\* in any order give the same output buffer
C25_IndependentIterations == []SameBuffer /\ [][OwnCellsOnly]_vars

\* all iterations but the first are done, those of the second point before
\* those of the first, and the buffer is not zero
C25_Witness ==
  /\ Projecting
  /\ call.proj_monitor.kind \in {"cartesian", "kspace"}
  /\ call.done = Iterations \ {1}
  /\ Cardinality(Iterations) > 2
  /\ \E k \in DOMAIN fields : fields[k] # CZero

\* all iterations are done, the last of them first
C25_WitnessAllDone ==
  /\ AllDone
  /\ call.proj_monitor.kind = "cartesian"
  /\ \E k, l \in DOMAIN fields :
       /\ SubSeq(k, 2, 4) # SubSeq(l, 2, 4)
       /\ fields[k] # CZero /\ fields[l] # CZero

(***************************************************************************)
(* The contributions received by the cells of the buffer                   *)
(***************************************************************************)
\* the loops of the orchestrator have ended: the buffer is about to be
\* returned
Finished == Projecting /\ turn > NumTurns(The(projector), call.proj_monitor)

\* the iterations executed that added the output of surface s to the cell k
Covering(k, s) ==
  {n \in 1..(turn - 1) :
     /\ TurnAt(The(projector), call.proj_monitor, n).s = s
     /\ k \in OwnCells(TurnAt(The(projector), call.proj_monitor, n))}

\* the output of the engine in iteration n
TurnOutput(n) ==
  EngineOutput(sim_data.simulation, The(projector), call.proj_monitor,
               TurnAt(The(projector), call.proj_monitor, n),
               ApplyWindowToCurrents(
                 call.proj_monitor,
                 The(surface_currents)[The(projector).surfaces[
                   TurnAt(The(projector), call.proj_monitor, n).s].monitor.name]))

\* what the iteration n has added to the cell k, outs being the outputs
AddedBy(outs, n, k) ==
  Contribution(sim_data.simulation, The(projector), call.proj_monitor,
               TurnAt(The(projector), call.proj_monitor, n), outs[n], k)

\* the cell k holds one contribution of every surface
OnePerSurface(outs, k) ==
  /\ \A s \in 1..Len(The(projector).surfaces) : Cardinality(Covering(k, s)) = 1
  /\ fields[k] = CSum([s \in 1..Len(The(projector).surfaces) |->
                         AddedBy(outs, CHOOSE n \in Covering(k, s) : TRUE, k)],
                      Len(The(projector).surfaces))

\* C26: when an orchestrator finishes, every cell of the output, of each of
\* the six components at every point of the grid and every frequency, has
\* received exactly one additive contribution from each surface, for the
\* three kinds of grid and both engines
C26_OneContributionPerSurface ==
  Finished =>
    /\ DOMAIN fields = Indices(<<6>> \o GridShape(call.proj_monitor)
                                 \o <<Len(Frequencies(The(projector)))>>)
    /\ \E outs \in {Eager([n \in 1..(turn - 1) |-> TurnOutput(n)])} :
         \A k \in DOMAIN fields : OnePerSurface(outs, k)

\* the loops over two surfaces, two points and two frequencies have ended
\* with cells that are not zero at both points and both frequencies
FinishedOnTwo(kind, far) ==
  /\ Finished
  /\ call.proj_monitor.kind = kind /\ call.proj_monitor.far_field_approx = far
  /\ Len(The(projector).surfaces) = 2
  /\ \E k \in DOMAIN fields : fields[k] # CZero

C26_Witness ==
  /\ FinishedOnTwo("kspace", TRUE)
  /\ Len(Frequencies(The(projector))) = 2
  /\ The(projector).surfaces[1] # The(projector).surfaces[2]
  /\ \E k, l \in DOMAIN fields :
       /\ SubSeq(k, 2, 4) # SubSeq(l, 2, 4) /\ k[5] # l[5]
       /\ fields[k] # CZero /\ fields[l] # CZero
C26_WitnessAngleExact == FinishedOnTwo("angle", FALSE)
C26_WitnessCartesianExact == FinishedOnTwo("cartesian", FALSE)
C26_WitnessKSpaceExact == FinishedOnTwo("kspace", FALSE)
C26_WitnessAngleFar == FinishedOnTwo("angle", TRUE)
C26_WitnessCartesianFar == FinishedOnTwo("cartesian", TRUE)

(***************************************************************************)
(* The propagation factor                                                  *)
(***************************************************************************)
\* an iteration of the loops has ended without error: the engine has
\* returned its output, which was added to the buffer
TurnStep == Projecting /\ Projecting' /\ turn' = turn + 1

\* the observation distance of the cell k: the radius of its point on the
\* Cartesian grid, the projection distance on the other grids
DistanceOf(monitor, k) ==
  IF monitor.kind = "cartesian"
  THEN Car2Sph(CInt(CartesianPoints(monitor)[1][k[2]]), CInt(CartesianPoints(monitor)[2][k[3]]),
               CInt(CartesianPoints(monitor)[3][k[4]])).r
  ELSE CInt(monitor.proj_distance)

\* the propagation factor of the frequency of index f at the cell k
FactorAt(monitor, k, f) ==
  PropagationFactor(Some(DistanceOf(monitor, k)),
                    Wavenumber(ProjectionMedium(The(projector), monitor),
                               Frequencies(The(projector))[f]),
                    Is2dSimulation(sim_data.simulation))

\* the value of the far-field engine's output for the cell k
FarValue(monitor, out, k) ==
  IF monitor.kind = "angle" THEN out.val[<<k[1], k[3], k[4]>>] ELSE out.val[<<k[1], 1, 1>>]

\* the value of the exact engine's output, as (6, len(freqs)), for the cell k
ExactValue(out, k) ==
  out.val[Unravel((k[1] - 1) * Len(Frequencies(The(projector))) + k[5] - 1, out.shape)]

\* the output that the engine has returned is that of the engine on the
\* windowed currents of the surface, and the buffer has grown by it: under
\* the far-field approximation times the factor of the frequency, under the
\* exact engine as it is
FactorOnce(monitor, t, out) ==
  /\ out = EngineOutput(sim_data.simulation, The(projector), monitor, t,
                        ApplyWindowToCurrents(
                          monitor,
                          The(surface_currents')[The(projector).surfaces[t.s].monitor.name]))
  /\ \A k \in DOMAIN fields :
       fields'[k] =
         IF k \notin OwnCells(t) THEN fields[k]
         ELSE IF monitor.far_field_approx
         THEN CAdd(fields[k], CMul(FarValue(monitor, out, k), FactorAt(monitor, k, t.f)))
         ELSE CAdd(fields[k], ExactValue(out, k))

PropagationStep ==
  TurnStep =>
    FactorOnce(call.proj_monitor, TurnAt(The(projector), call.proj_monitor, turn),
               The(last_fields'))

\* C27: the propagation factor is applied by the orchestrator, not by the
\* far-field engine: under the far-field approximation the contribution of
\* each surface at the frequency of index f is multiplied exactly once by the
\* factor of that frequency and of the observation distance, computed with
\* the 2D flag of the projector; under the exact engine no factor is applied
C27_PropagationFactorOnce == [][PropagationStep]_vars

\* a far-field iteration has ended in a 2D simulation for the second
\* frequency, with an output that is not zero and a factor other than 1 and
\* other than that of three dimensions
C27_Witness ==
  /\ FarReturned
  /\ Is2dSimulation(sim_data.simulation)
  /\ LastTurn.f = 2
  /\ \E k \in OwnCells(LastTurn) :
       /\ FarValue(call.proj_monitor, The(last_fields), k) # CZero
       /\ fields[k] # CZero
       /\ FactorAt(call.proj_monitor, k, 2) # COne
       /\ FactorAt(call.proj_monitor, k, 2)
            # PropagationFactor(Some(DistanceOf(call.proj_monitor, k)),
                                Wavenumber(ProjectionMedium(The(projector), call.proj_monitor),
                                           Frequencies(The(projector))[2]), FALSE)

\* an iteration of the exact engine has ended with an output that is not zero
C27_WitnessExact ==
  /\ Projecting /\ last_fields # None
  /\ ~call.proj_monitor.far_field_approx
  /\ \E k \in OwnCells(LastTurn) :
       ExactValue(The(last_fields), k) # CZero /\ fields[k] = ExactValue(The(last_fields), k)

(***************************************************************************)
(* The two engines on the currents of one dipole, many wavelengths away    *)
(***************************************************************************)
\* the amplitudes of the current components of the dipole
MaxAmplitude == 3

\* the observation point is at the distance 1 along the normal of the
\* surface
Distance == COne

\* the distances of the observation point in wavelengths, ascending, and
\* the frequency whose wavelength makes Distance so many wavelengths
Wavelengths == <<10, 100, 1000>>

FrequencyOf(wavelengths) == C_0 * wavelengths

\* the names of the electric and of all current components of a surface
\* normal to axis a
ElectricNames(a) ==
  LET cmp == PopAxis(<<"x", "y", "z">>, a)[2]
  IN  {EName(cmp[1]), EName(cmp[2])}
CurrentNames(a) ==
  LET cmp == PopAxis(<<"x", "y", "z">>, a)[2]
  IN  {EName(cmp[1]), EName(cmp[2]), HName(cmp[1]), HName(cmp[2])}

\* a surface normal to axis a through the origin
DipoleSurface(a) ==
  [monitor |-> [name |-> "plane", size |-> [k \in 1..3 |-> IF k - 1 = a THEN 0 ELSE 2],
                center |-> <<0, 0, 0>>],
   normal_dir |-> "+"]

\* the currents of an electric dipole: the two tangential components of the
\* electric current have the amplitudes amp at the sample point at the
\* origin, and all currents are zero elsewhere on the surface
DipoleCurrents(a, amp, frequency) ==
  LET coords == [k \in 1..3 |-> IF k - 1 = a THEN <<CZero>> ELSE <<CZero, CInt(2)>>]
      shape == <<Len(coords[1]), Len(coords[2]), Len(coords[3]), 1>>
  IN  [err |-> "none", x |-> coords[1], y |-> coords[2], z |-> coords[3],
       f |-> <<CInt(frequency)>>,
       data |-> Eager([c \in CurrentNames(a) |->
                  Eager([k \in Indices(shape) |->
                           IF k = <<1, 1, 1, 1>> /\ c \in DOMAIN amp
                           THEN CInt(amp[c]) ELSE CZero])])]

\* the six components of the far-field engine at the point obs, times the
\* propagation factor of its distance (lines 704-717)
FarFieldAtPoint(surface, currents, frequency, obs) ==
  LET sph == Car2Sph(obs[1], obs[2], obs[3])
      out == FarFieldsAt([size |-> <<4, 4, 4>>], frequency, sph, surface, currents, Vacuum)
      phase == PropagationFactor(Some(sph.r), Wavenumber(Vacuum, frequency), FALSE)
  IN  [c \in 1..6 |-> CMul(out.val[<<c, 1, 1>>], phase)]

\* the six components of the exact engine at the point obs (lines 722-728)
ExactFieldAtPoint(surface, currents, frequency, obs) ==
  LET out == FieldsForSurfaceExact(<<frequency>>, obs, surface, currents, Vacuum)
  IN  [c \in 1..6 |-> out.val[Unravel(c - 1, out.shape)]]

\* both engines at the distance of the given number of wavelengths
BothEngines(a, amp, wavelengths) ==
  LET surface == DipoleSurface(a)
      frequency == FrequencyOf(wavelengths)
      currents == DipoleCurrents(a, amp, frequency)
      obs == [k \in 1..3 |-> IF k - 1 = a THEN Distance ELSE CZero]
  IN  [far |-> FarFieldAtPoint(surface, currents, frequency, obs),
       exact |-> ExactFieldAtPoint(surface, currents, frequency, obs)]

InitConverge == call = NoCall /\ ret = NoCall /\ NoSession

\* the dipole projected by both engines to every distance
CallBothEngines ==
  /\ call = NoCall
  /\ UNCHANGED session
  /\ \E a \in Axes :
       \E amp \in [ElectricNames(a) -> (-MaxAmplitude)..MaxAmplitude] :
         /\ call' = [op |-> "project_both", axis |-> a, amp |-> amp]
         /\ ret' = [n \in 1..Len(Wavelengths) |-> BothEngines(a, amp, Wavelengths[n])]

NextConverge == CallBothEngines

SpecConverge == InitConverge /\ [][NextConverge]_vars

\* the sum of |Re| + |Im| over the components cs of the difference of two
\* fields, and the greatest |Re| or |Im| of a component of one field
RAbs(x) == <<Abs(x[1]), 0, x[3]>>
RECURSIVE SumNorm(_, _, _)
SumNorm(u, w, cs) ==
  IF cs = {} THEN CZero
  ELSE LET c == CHOOSE k \in cs : TRUE
           d == CSub(u[c], w[c])
       IN  CAdd(CAdd(RAbs(<<d[1], 0, d[3]>>), RAbs(<<d[2], 0, d[3]>>)),
                SumNorm(u, w, cs \ {c}))
RECURSIVE MaxNorm(_, _)
MaxNorm(u, cs) ==
  IF cs = {} THEN CZero
  ELSE LET c == CHOOSE k \in cs : TRUE
       IN  RMax(RMax(RAbs(<<u[c][1], 0, u[c][3]>>), RAbs(<<u[c][2], 0, u[c][3]>>)),
                MaxNorm(u, cs \ {c}))

\* a bound of the relative difference of the exact field from the far
\* field over the components cs: the Euclidean norm of the difference is at
\* most SumNorm, that of the far field at least MaxNorm
RelativeDifference(both, cs) == CDiv(SumNorm(both.exact, both.far, cs), MaxNorm(both.far, cs))

\* x < y for two real numbers
RLess(x, y) == CSub(y, x)[1] > 0

EComponents == {1, 2, 3}
HComponents == {4, 5, 6}

BothProjected == call.op = "project_both"
Radiating == \E c \in DOMAIN call.amp : call.amp[c] # 0

\* the relative differences of E and of H shrink from each distance to the
\* next greater one, and are at most 1/100 at 1000 wavelengths
Converges ==
  \A cs \in {EComponents, HComponents} :
    /\ MaxNorm(ret[Len(Wavelengths)].far, cs) # CZero
    /\ \A n \in 1..(Len(Wavelengths) - 1) :
         RLess(RelativeDifference(ret[n + 1], cs), RelativeDifference(ret[n], cs))
    /\ Wavelengths[Len(Wavelengths)] = 1000
    /\ RLe(RelativeDifference(ret[Len(Wavelengths)], cs), CRat(1, 100))

\* C19: the exact projection at a point many wavelengths away converges to
\* the result of the far-field approximation with its propagation factor:
\* for the currents of a dipole the relative difference shrinks as the
\* distance grows, and at 1000 wavelengths it is at most 1/100
C19_ExactConvergesToFar == (BothProjected /\ Radiating) => Converges

\* the same for the surfaces normal to y and to z
C19_ConvergesNormalToYZ == (BothProjected /\ Radiating /\ call.axis # 0) => Converges

\* on a surface normal to x the exact field of a dipole stays away from the
\* far field: at 1000 wavelengths E differs by more than 1/100
C19_ApartNormalToX ==
  (BothProjected /\ Radiating /\ call.axis = 0) =>
    RLess(CRat(1, 100), RelativeDifference(ret[Len(Wavelengths)], EComponents))

\* a dipole on a surface normal to z was projected: the two engines differ
\* at 1000 wavelengths by less than 1/100 of the far field, and by more at
\* 10 wavelengths
C19_WitnessNormalToZ ==
  /\ BothProjected
  /\ call.axis = 2
  /\ call.amp["Ex"] # 0 /\ call.amp["Ey"] # 0
  /\ ret[3].exact # ret[3].far
  /\ RLess(CZero, RelativeDifference(ret[3], EComponents))
  /\ RLess(RelativeDifference(ret[3], EComponents), CRat(1, 100))
  /\ RLess(CRat(1, 100), RelativeDifference(ret[1], EComponents))

\* a dipole on a surface normal to x was projected
C19_WitnessNormalToX == BothProjected /\ Radiating /\ call.axis = 0


(***************************************************************************)
(* The far-field engine on a uniform aperture                              *)
(***************************************************************************)
\* the sample points along x, and the spacing of the sample points in
\* quarters of the wavelength
MaxSamples == 3
MaxSpacing == 4

\* the frequency whose wavelength is 4, a spacing of 1 being a quarter of it
ApertureFrequency == C_0 \div 4

\* a surface normal to z with uniform currents in phase: every sample
\* point carries the amplitudes amp of the four tangential components
ApertureSurface ==
  [monitor |-> [name |-> "aperture", size |-> <<2, 2, 0>>, center |-> <<0, 0, 0>>],
   normal_dir |-> "+"]
ApertureCurrents(n, h, amp) ==
  [err |-> "none",
   x |-> [i \in 1..n |-> CInt((i - 1) * h)], y |-> <<CZero, CInt(h)>>, z |-> <<CZero>>,
   f |-> <<CInt(ApertureFrequency)>>,
   data |-> Eager([c \in CurrentNames(2) |->
              Eager([k \in Indices(<<n, 2, 1, 1>>) |-> CInt(amp[c])])])]

InitAperture == call = NoCall /\ ret = NoCall /\ NoSession

\* the engine on the angular grid theta = (0, pi/2), phi = (0), at the one
\* frequency of the currents
CallFarFieldsForSurface ==
  /\ call = NoCall
  /\ UNCHANGED session
  /\ \E n \in 2..MaxSamples, h \in 1..MaxSpacing,
        amp \in [CurrentNames(2) -> -1..1] :
       /\ call' = [op |-> "_far_fields_for_surface", samples |-> n, spacing |-> h,
                   amp |-> amp]
       /\ ret' = FarFieldsForSurface([size |-> <<4, 4, 4>>], ApertureFrequency,
                                     <<Angle0, Angle90>>, <<Angle0>>, ApertureSurface,
                                     ApertureCurrents(n, h, amp), Vacuum)

NextAperture == CallFarFieldsForSurface

SpecAperture == InitAperture /\ [][NextAperture]_vars

\* |Er|^2 + |Etheta|^2 + |Ephi|^2 at theta[t], phi[1]
Modulus2(x) == CRat(x[1] * x[1] + x[2] * x[2], x[3] * x[3])
Magnitude2(t) ==
  CAdd(CAdd(Modulus2(ret.val[<<1, t, 1>>]), Modulus2(ret.val[<<2, t, 1>>])),
       Modulus2(ret.val[<<3, t, 1>>]))

ApertureProjected == call.op = "_far_fields_for_surface" /\ ret.err = "none"
Carrying(names) == \E c \in names : call.amp[c] # 0
ElectricOnly == Carrying(ElectricNames(2)) /\ ~Carrying(CurrentNames(2) \ ElectricNames(2))
MagneticOnly == Carrying(CurrentNames(2) \ ElectricNames(2)) /\ ~Carrying(ElectricNames(2))
WholeWavelengths == call.spacing % 4 = 0

C20_WitnessGreaterAside ==
  /\ ApertureProjected
  /\ Carrying(ElectricNames(2)) /\ Carrying(CurrentNames(2) \ ElectricNames(2))
  /\ call.spacing = 1
  /\ RLess(Magnitude2(1), Magnitude2(2))

\* electric currents alone, a whole wavelength apart: the field at
\* theta = pi/2 is as great as at theta = 0
C20_WitnessWholeWavelengths ==
  /\ ApertureProjected /\ ElectricOnly /\ WholeWavelengths
  /\ Magnitude2(2) = Magnitude2(1)


(***************************************************************************)
(* The Cartesian current vectors J and M of the two engines                *)
(***************************************************************************)
InitPlace == call = NoCall /\ ret = NoCall /\ NoSession

\* order = [idx_u, idx_v, idx_w] of a surface normal to axis a (lines 474,
\* 483 and 874-881)
OrderOf(a) ==
  <<PopAxis(<<0, 1, 2>>, a)[2][1], PopAxis(<<0, 1, 2>>, a)[2][2], PopAxis(<<0, 1, 2>>, a)[1]>>

\* lines 873-896: J and M of the exact engine at one source point, from the
\* currents of the two in-plane components
CallExactPlacement ==
  /\ call = NoCall
  /\ UNCHANGED session
  /\ \E a \in Axes, cur \in [1..4 -> (-MaxField)..MaxField] :
       /\ call' = [op |-> "exact_placement", axis |-> a,
                   jm |-> [c \in 1..4 |-> CInt(cur[c])]]
       /\ ret' = [J |-> PlaceExact(CInt(cur[1]), CInt(cur[2]), OrderOf(a)),
                  M |-> PlaceExact(CInt(cur[3]), CInt(cur[4]), OrderOf(a))]

\* lines 483-489: J and M of the far-field engine from the four integrals
CallFarPlacement ==
  /\ call = NoCall
  /\ UNCHANGED session
  /\ \E a \in Axes, cur \in [1..4 -> (-MaxField)..MaxField] :
       \E jm \in {[c \in 1..4 |-> CInt(cur[c])]} :
         /\ call' = [op |-> "far_placement", axis |-> a, jm |-> jm]
         /\ ret' = [J |-> [i \in 1..3 |-> PlaceFar(jm, OrderOf(a), 0, i - 1)],
                    M |-> [i \in 1..3 |-> PlaceFar(jm, OrderOf(a), 2, i - 1)]]

NextPlace == CallExactPlacement \/ CallFarPlacement

SpecPlace == InitPlace /\ [][NextPlace]_vars

\* the vector with first in slot idx_u, second in slot idx_v and zero in
\* slot idx_w of a surface normal to axis a
InOwnSlots(a, first, second) ==
  [i \in 1..3 |-> IF i - 1 = OrderOf(a)[1] THEN first
                  ELSE IF i - 1 = OrderOf(a)[2] THEN second ELSE CZero]

Placed == InOwnSlots(call.axis, call.jm[1], call.jm[2]) = ret.J
            /\ InOwnSlots(call.axis, call.jm[3], call.jm[4]) = ret.M

\* C21: in the exact engine, for every normal axis of the surface, J and M
\* hold the current of the first in-plane component in slot idx_u, that of
\* the second in slot idx_v and zero in slot idx_w, as in the far-field
\* engine
C21_ExactPlacement == call.op = "exact_placement" => Placed

\* the same for the surfaces normal to y and to z
C21_ExactPlacementYZ == (call.op = "exact_placement" /\ call.axis # 0) => Placed

\* on a surface normal to x the exact engine holds the second component in
\* slot x, zero in slot y and the first component in slot z
C21_ExactPlacementX ==
  (call.op = "exact_placement" /\ call.axis = 0) =>
    /\ ret.J = <<call.jm[2], CZero, call.jm[1]>>
    /\ ret.M = <<call.jm[4], CZero, call.jm[3]>>

\* C22: in the far-field engine, for every normal axis of the surface, the
\* integrated J and M have the two in-plane components in the Cartesian
\* slots of their own axes and zero in the slot of the normal axis
C22_FarPlacement ==
  call.op = "far_placement" =>
    /\ Placed
    /\ ret.J[call.axis + 1] = CZero /\ ret.M[call.axis + 1] = CZero

\* a surface normal to x with four different integrals, none of them zero
C22_Witness ==
  /\ call.op = "far_placement"
  /\ call.axis = 0
  /\ call.jm[1] # CZero /\ call.jm[2] # call.jm[1] /\ call.jm[2] # CZero
  /\ call.jm[3] # CZero /\ call.jm[4] # call.jm[3] /\ call.jm[4] # CZero
  /\ ret.J = <<CZero, call.jm[1], call.jm[2]>>
  /\ ret.M = <<CZero, call.jm[3], call.jm[4]>>

(***************************************************************************)
(* The axes over which the far-field engine integrates                     *)
(***************************************************************************)
\* the simulations: of three dimensions, flat along one axis, flat along two
FlatAxes == {{}, {0}, {1}, {2}, {0, 1}}

\* the number of source points along axis k of a surface normal to axis a:
\* one along the normal and along a flat axis of the simulation, two
\* elsewhere
SourceShape(flat, a) == [k \in 1..3 |-> IF k - 1 = a \/ k - 1 \in flat THEN 1 ELSE 2]

InitIntegrate == call = NoCall /\ ret = NoCall /\ NoSession

\* lines 427-439 and 470-479: the integral of one contracted component of
\* the currents of a surface normal to axis a
CallFarIntegral ==
  /\ call = NoCall
  /\ UNCHANGED session
  /\ \E flat \in FlatAxes, a \in Axes, h \in 1..MaxStep :
       \E val \in [Indices(SourceShape(flat, a)) -> 0..MaxField] :
         LET shape == SourceShape(flat, a)
             pts == [k \in 1..3 |-> UniformPts(shape[k], h)]
             surface == [monitor |-> [name |-> "surface",
                                      size |-> [k \in 1..3 |-> IF k - 1 = a THEN 0 ELSE 4]],
                         normal_dir |-> "+"]
             ary == [shape |-> shape, val |-> [t \in Indices(shape) |-> CInt(val[t])]]
         IN  /\ call' = [op |-> "_far_fields_for_surface", sim |-> Simulation(flat),
                         axis |-> a, h |-> h, ary |-> ary]
             /\ ret' = FarIntegral(Simulation(flat), surface,
                                   [x |-> pts[1], y |-> pts[2], z |-> pts[3]], ary)

NextIntegrate == CallFarIntegral

SpecIntegrate == InitIntegrate /\ [][NextIntegrate]_vars

Integrated == call.op = "_far_fields_for_surface" /\ "ary" \in DOMAIN call

\* the trapezoidal rule along axis a (from 0) of the values f of an array of
\* the shape given, whose points along the axis are h apart: the array
\* without the axis
AlongAxis(shape, f, a, h) ==
  [shape |-> RemoveAt(shape, a + 1),
   val |-> [t \in Indices(RemoveAt(shape, a + 1)) |->
              IF shape[a + 1] = 1 THEN f[InsertAt(t, a + 1, 1)]
              ELSE CMul(CAdd(f[InsertAt(t, a + 1, 1)], f[InsertAt(t, a + 1, 2)]),
                        CRat(h, 2))]]

\* the integral over the one axis a, and over the two axes u < v
OverOne(a) == AlongAxis(call.ary.shape, call.ary.val, a, call.h)
OverTwo(u, v) == AlongAxis(OverOne(v).shape, OverOne(v).val, u, call.h)

\* the axes that are neither a zero-size axis of the simulation nor the
\* normal of the surface
Transverse == Axes \ (ZeroDims(call.sim) \cup {call.axis})

\* the in-plane axes of the surface
InPlane == PopAxis(<<0, 1, 2>>, call.axis)[2]

\* the result is the integral over the axes given
IsIntegral(over) == ret.err = "none" /\ ret.shape = over.shape /\ ret.val = over.val

\* C28: in a 2D simulation the far-field engine integrates over exactly one
\* axis per surface, the one axis that is neither the zero-size axis of the
\* simulation nor the normal of the surface; in a simulation that is not 2D
\* it integrates over the two in-plane axes of the surface
C28_IntegrationAxes ==
  Integrated =>
    IF Is2dSimulation(call.sim)
    THEN /\ Cardinality(Transverse) = 1
         /\ \A a \in Transverse : IsIntegral(OverOne(a))
    ELSE IsIntegral(OverTwo(InPlane[1], InPlane[2]))

\* the same for the surfaces whose normal is not the zero-size axis of the
\* simulation
C28_IntegrationAxesAcross ==
  (Integrated /\ call.axis \notin ZeroDims(call.sim)) =>
    IF Is2dSimulation(call.sim)
    THEN /\ Cardinality(Transverse) = 1
         /\ \A a \in Transverse : IsIntegral(OverOne(a))
    ELSE IsIntegral(OverTwo(InPlane[1], InPlane[2]))

\* a surface in the plane of a 2D simulation: two axes are neither the
\* zero-size axis nor the normal, the first of them is integrated over, and
\* the two points of the other are left
C28_FirstOfTwo ==
  (Integrated /\ Is2dSimulation(call.sim) /\ call.axis \in ZeroDims(call.sim)) =>
    /\ Cardinality(Transverse) = 2
    /\ IsIntegral(OverOne(InPlane[1]))
    /\ Cardinality(DOMAIN ret.val) = 2

\* a line of a 2D simulation was integrated, with values that make the axes
\* differ
C28_ReachedAcross ==
  /\ Integrated /\ Is2dSimulation(call.sim) /\ call.axis \notin ZeroDims(call.sim)
  /\ \A a \in Axes \ {call.axis} : a \notin Transverse => ~IsIntegral(OverOne(a))
  /\ \E t \in DOMAIN ret.val : ret.val[t] # CZero

(***************************************************************************)
(* Simulation data that lack the data of a monitor                         *)
(***************************************************************************)
\* lines 223-228 alone: the currents whether or not sim_data holds the data
ComputeSurfaceCurrentsUnchecked(data, surface, medium, pts_per_wavelength) ==
  ComputeSurfaceCurrents(data.simulation, surface, medium, pts_per_wavelength)

\* lines 219-230: data.monitor_data holds the names of the monitors whose
\* data sim_data has
ComputeSurfaceCurrentsIn(data, surface, medium, pts_per_wavelength) ==
  IF surface.monitor.name \notin data.monitor_data
  THEN [err |-> "SetupError", x |-> <<>>, y |-> <<>>, z |-> <<>>, f |-> <<>>, data |-> <<>>]
  ELSE ComputeSurfaceCurrents(data.simulation, surface, medium, pts_per_wavelength)

\* lines 169-189 on such simulation data: the entry of a surface whose
\* currents raised holds the exception, which leaves the property
RECURSIVE CurrentsIn(_, _, _)
CurrentsIn(data, p, n) ==
  IF n = 0 THEN <<>>
  ELSE LET before == CurrentsIn(data, p, n - 1)
           surface == p.surfaces[n]
           current_data == ShiftCurrents(ComputeSurfaceCurrentsIn(data, surface, Medium(p),
                                                                   p.pts_per_wavelength),
                                         p.origin)
       IN  Eager([name \in DOMAIN before \cup {surface.monitor.name} |->
                    IF name = surface.monitor.name THEN current_data ELSE before[name]])

\* the projectors: one or two of the monitors, with the normal direction "+"
\* and the default origin
MissingProjectors ==
  {[surfaces |-> SurfacesFirstDir(Eager([i \in 1..Len(names) |-> NearMonitor(names[i])]),
                                  <<"+">>),
    pts_per_wavelength |-> None,
    origin |-> <<CZero, CZero, CZero>>] : names \in SeqsUpTo(MonitorNames, MaxSurfaces)}

\* the simulation data hold the data of any of the monitors
InitMissing ==
  /\ call = NoCall /\ ret = NoCall
  /\ sim_data \in {[simulation |-> SimulationData(<<4, 4, 4>>).simulation,
                    monitor_data |-> held] : held \in SUBSET MonitorNames}
  /\ projector \in {Some(p) : p \in MissingProjectors}
  /\ surface_currents = None
  /\ pc = "ready" /\ fields = <<>> /\ turn = 0 /\ last_fields = None
  /\ past = NoPast

\* compute_surface_currents(sim_data, surface, medium, pts_per_wavelength)
CallComputeSurfaceCurrents ==
  /\ pc = "ready"
  /\ \E i \in 1..Len(The(projector).surfaces) :
       /\ call' = [op |-> "compute_surface_currents", surface |-> The(projector).surfaces[i]]
       /\ ret' = ComputeSurfaceCurrentsIn(sim_data, The(projector).surfaces[i],
                                          Medium(The(projector)),
                                          The(projector).pts_per_wavelength)
  /\ UNCHANGED session

\* one turn of the loops of project_fields, self.currents being computed
\* from the simulation data when first read
ProjectFieldsTurnIn ==
  /\ pc = "projecting"
  /\ turn <= NumTurns(The(projector), call.proj_monitor)
  /\ TurnOn(sim_data.simulation, The(projector), call.proj_monitor,
            TurnAt(The(projector), call.proj_monitor, turn),
            IF surface_currents = None
            THEN CurrentsIn(sim_data, The(projector), Len(The(projector).surfaces))
            ELSE The(surface_currents))
  /\ UNCHANGED <<call, sim_data, projector, past>>

NextMissing ==
  CallComputeSurfaceCurrents \/ ProjectFields \/ ProjectFieldsTurnIn \/ RecordedReturn

SpecMissing == InitMissing /\ [][NextMissing]_vars

\* the names of the projector's monitors of which sim_data has no data
Missing == {The(projector).surfaces[i].monitor.name : i \in 1..Len(The(projector).surfaces)}
             \ sim_data.monitor_data

\* C29: compute_surface_currents raises a SetupError naming the monitor,
\* before it extracts or resamples any currents, whenever the name of the
\* surface's monitor has no entry in the simulation data; a projector with
\* such a surface never yields a currents cache or a projection result
C29_MissingDataRaises ==
  /\ (call.op = "compute_surface_currents"
        /\ call.surface.monitor.name \notin sim_data.monitor_data) =>
       ret.err = "SetupError" /\ ret.data = <<>> /\ ret.x = <<>>
  /\ Missing # {} =>
       /\ surface_currents = None
       /\ past.results = <<>>
       /\ Ended => /\ ret.err = "SetupError" /\ ret.monitor \in Missing
                   /\ "fields" \notin DOMAIN ret

\* a projection has ended on a projector of two surfaces, of which the
\* second lacks its data while the first has them
C29_Witness ==
  /\ Ended
  /\ Len(The(projector).surfaces) = 2
  /\ Missing = {The(projector).surfaces[2].monitor.name}
  /\ ret.err = "SetupError"
  /\ ret.monitor = The(projector).surfaces[2].monitor.name

\* compute_surface_currents has raised for one surface and returned the
\* currents of another
C29_WitnessStatic ==
  /\ call.op = "compute_surface_currents"
  /\ call.surface.monitor.name \notin sim_data.monitor_data
  /\ ret.err = "SetupError"

\* with all data held, projections return and the currents are cached
C29_WitnessHeld ==
  /\ Missing = {} /\ surface_currents # None /\ Len(past.results) = 2
  /\ Len(The(projector).surfaces) = 2

=============================================================================
